---- MODULE Spec2Model ----
(***************************************************************************)
(* Congestion-control engine of the TCP file-transfer demo: the Tahoe,     *)
(* Reno, Cubic and BBR state machines, the adaptive controller that swaps  *)
(* between them, and the connection manager that owns the client sessions. *)
(*                                                                         *)
(* Python floats are modelled as exact rationals <<n, d>> (d > 0, lowest   *)
(* terms); float('inf') is <<1, 0>>.  time.time() is the variable now, in  *)
(* seconds; every time.time() call made inside one handler reads the same  *)
(* value of now.                                                           *)
(***************************************************************************)
EXTENDS Integers, Sequences, FiniteSets, TLC

\* ------------------------------------------------------------ bounds
\* calls (and clock advances) made on one controller after its initial state
MaxSteps == 3
\* acks a controller may already have received in its initial state
WarmAcks == 4
\* largest numerator and denominator of a window that still takes a 1/cwnd step
MaxMagnitude == 900
\* calls made on the controller given unusual arguments
MaxEdgeSteps == 2
\* calls made on the controller whose classifier is examined
MaxClassifierSteps == 2
\* calls made on the controller whose history is nearly full
MaxHistorySteps == 3
\* calls made on the Reno object used on its own
MaxRenoCalls == 6
\* calls made on the BBR object used on its own
MaxBBRCalls == 5
\* seconds the clock runs while BBR receives steady acks, and acks counted
MaxSteadySeconds == 11
MaxPacketCount == 6
\* steps of one behaviour of the registry
MaxRegistrySteps == 5
\* client ids uuid4() hands out in one behaviour
MaxClients == 2
\* clients the sampler thread registers in one behaviour of the threads
MaxSessions == 1
\* feeds one client object receives from the threads
MaxFeeds == 2
\* times the clock advances while the threads run
MaxThreadTicks == 1

\* ------------------------------------------------------------ rationals
Abs(x) == IF x < 0 THEN -x ELSE x

RECURSIVE GCD(_, _)
GCD(a, b) == IF b = 0 THEN a ELSE CHOOSE g \in {GCD(y, r) : y \in {b}, r \in {a % b}} : TRUE

Norm(n, d) == LET g == GCD(Abs(n), d) IN <<n \div g, d \div g>>

Rat(n, d) == Norm(n, d)
Num(i) == <<i, 1>>
Inf == <<1, 0>>
Zero == <<0, 1>>
One == <<1, 1>>

IsInf(a) == a[2] = 0

RNeg(a) == <<-a[1], a[2]>>

RAdd(a, b) ==
    IF IsInf(a) \/ IsInf(b) THEN Inf
    ELSE LET g == GCD(a[2], b[2])
         IN Norm(a[1] * (b[2] \div g) + b[1] * (a[2] \div g), (a[2] \div g) * b[2])

RSub(a, b) == RAdd(a, RNeg(b))

RMul(a, b) ==
    LET g1 == GCD(Abs(a[1]), b[2])
        g2 == GCD(Abs(b[1]), a[2])
    IN IF IsInf(a) \/ IsInf(b) THEN Inf
       ELSE Norm((a[1] \div g1) * (b[1] \div g2), (a[2] \div g2) * (b[2] \div g1))

\* a / b for b > 0
RDiv(a, b) == RMul(a, <<b[2], b[1]>>)

\* a < b, decided on the whole parts and then on the reciprocals of the
\* fractional parts (no products, so no intermediate value outgrows its operands)
RECURSIVE RLt(_, _)
RLt(a, b) ==
    IF IsInf(a) THEN FALSE
    ELSE IF IsInf(b) THEN TRUE
    ELSE LET fa == a[1] \div a[2]
             fb == b[1] \div b[2]
             ra == a[1] % a[2]
             rb == b[1] % b[2]
         IN IF fa # fb THEN fa < fb
            ELSE IF rb = 0 THEN FALSE
            ELSE IF ra = 0 THEN TRUE
            ELSE \E x \in {<<b[2], rb>>}, y \in {<<a[2], ra>>} : RLt(x, y)

RLe(a, b) == ~RLt(b, a)
RGt(a, b) == RLt(b, a)
RGe(a, b) == ~RLt(a, b)
RMax(a, b) == IF RLt(a, b) THEN b ELSE a
RMin(a, b) == IF RLt(b, a) THEN b ELSE a

\* x ** 3
Cube(x) == RMul(x, RMul(x, x))

\* ack numbers
AckNums == {1, 2}

\* Python's truth value of an optional number: None and 0 are false
None == "None"
Truthy(x) == x # None /\ x[1] # 0

\* The window still fits the model's integers after one more 1/cwnd step
Small(x) == Abs(x[1]) <= MaxMagnitude /\ x[2] <= MaxMagnitude

\* cwnd + 1.0 / cwnd as the float addition computes it. From 2 ** 27 on, 1 / cwnd
\* (at most 2 ** -27) is less than half the spacing of the doubles at cwnd (at
\* least 2 ** -25), so the sum rounds back to cwnd; below that the sum is larger
\* than cwnd and is taken without rounding
FloatAbsorbs == 134217728
\* A variant that adds a whole segment per ack, as slow start does
AdditiveIncrease_whole_segment(cwnd) == RAdd(cwnd, One)

AdditiveIncrease(cwnd) ==
    IF RGe(cwnd, Num(FloatAbsorbs)) THEN cwnd ELSE RAdd(cwnd, RDiv(One, cwnd))

\* ------------------------------------------------------------ Tahoe
TahoeInit ==
    [cwnd |-> One, ssthresh |-> Num(65535), state |-> "slow_start",
     duplicate_acks |-> 0, last_ack |-> 0]

\* A variant of on_ack_received that leaves slow start only once cwnd is above
\* ssthresh
TahoeOnAck_leave_above_threshold(a, ack_num) ==
    IF a.state = "slow_start"
    THEN LET w == RAdd(a.cwnd, One)
         IN [a EXCEPT !.cwnd = w,
                      !.state = IF RGt(w, a.ssthresh) THEN "congestion_avoidance" ELSE @]
    ELSE IF a.state = "congestion_avoidance"
    THEN [a EXCEPT !.cwnd = AdditiveIncrease(a.cwnd)]
    ELSE a

TahoeOnAck(a, ack_num) ==
    IF a.state = "slow_start"
    THEN LET w == RAdd(a.cwnd, One)
         IN [a EXCEPT !.cwnd = w,
                      !.state = IF RGe(w, a.ssthresh) THEN "congestion_avoidance" ELSE @]
    ELSE IF a.state = "congestion_avoidance"
    THEN [a EXCEPT !.cwnd = AdditiveIncrease(a.cwnd)]
    ELSE a

\* A variant of on_timeout whose threshold is not held at 2 or above
TahoeOnTimeout_no_floor(a) ==
    [a EXCEPT !.ssthresh = RDiv(a.cwnd, Num(2)),
              !.cwnd = One,
              !.state = "slow_start"]

TahoeOnTimeout(a) ==
    [a EXCEPT !.ssthresh = RMax(RDiv(a.cwnd, Num(2)), Num(2)),
              !.cwnd = One,
              !.state = "slow_start"]

\* ------------------------------------------------------------ Reno
RenoInit ==
    [cwnd |-> One, ssthresh |-> Num(65535), state |-> "slow_start",
     duplicate_acks |-> 0, recover |-> 0]

enter_fast_recovery(a, ack_num) ==
    LET th == RMax(RDiv(a.cwnd, Num(2)), Num(2))
    IN [a EXCEPT !.ssthresh = th,
                 !.cwnd = RAdd(th, Num(3)),
                 !.state = "fast_recovery",
                 !.recover = ack_num]

\* A variant of on_ack_received that leaves fast recovery one ack early, on the
\* ack that repeats the recovery point
RenoOnAck_early_exit(a, ack_num) ==
    IF a.state = "fast_recovery"
    THEN IF ack_num >= a.recover
         THEN [a EXCEPT !.cwnd = a.ssthresh,
                        !.state = "congestion_avoidance",
                        !.duplicate_acks = 0]
         ELSE [a EXCEPT !.cwnd = RAdd(a.cwnd, One)]
    ELSE IF a.duplicate_acks >= 3
    THEN enter_fast_recovery(a, ack_num)
    ELSE IF a.state = "slow_start"
    THEN LET w == RAdd(a.cwnd, One)
         IN [a EXCEPT !.cwnd = w,
                      !.state = IF RGe(w, a.ssthresh) THEN "congestion_avoidance" ELSE @]
    ELSE IF a.state = "congestion_avoidance"
    THEN [a EXCEPT !.cwnd = AdditiveIncrease(a.cwnd)]
    ELSE a

RenoOnAck(a, ack_num) ==
    IF a.state = "fast_recovery"
    THEN IF ack_num > a.recover
         THEN [a EXCEPT !.cwnd = a.ssthresh,
                        !.state = "congestion_avoidance",
                        !.duplicate_acks = 0]
         ELSE [a EXCEPT !.cwnd = RAdd(a.cwnd, One)]
    ELSE IF a.duplicate_acks >= 3
    THEN enter_fast_recovery(a, ack_num)
    ELSE IF a.state = "slow_start"
    THEN LET w == RAdd(a.cwnd, One)
         IN [a EXCEPT !.cwnd = w,
                      !.state = IF RGe(w, a.ssthresh) THEN "congestion_avoidance" ELSE @]
    ELSE IF a.state = "congestion_avoidance"
    THEN [a EXCEPT !.cwnd = AdditiveIncrease(a.cwnd)]
    ELSE a

\* ------------------------------------------------------------ Cubic
c == <<2, 5>>
beta == <<7, 10>>

CubicInit ==
    [cwnd |-> One, ssthresh |-> Num(65535), state |-> "slow_start",
     wmax |-> Zero, epoch_start |-> Zero, origin_point |-> Zero]

\* The largest k in lo..hi with k ** e <= x (e is 2 or 3), by bisection
RECURSIVE RootSearch(_, _, _, _)
RootSearch(lo, hi, e, x) ==
    IF lo >= hi THEN lo
    ELSE LET mid == (lo + hi + 1) \div 2
             p == IF e = 2 THEN mid * mid ELSE mid * mid * mid
         IN IF RLe(Num(p), x) THEN RootSearch(mid, hi, e, x)
            ELSE RootSearch(lo, mid - 1, e, x)

\* x ** (1/3) for x >= 0, to one decimal place (rounded down)
CubeRoot(x) == Rat(RootSearch(0, 1000, 3, RMul(x, Num(1000))), 10)

\* x ** 0.5 for x >= 0, to one decimal place (rounded down)
SquareRoot(x) == Rat(RootSearch(0, 40000, 2, RMul(x, Num(100))), 10)

\* c * ((t - origin_point) ** 3)
CubicTerm(a, t) == RMul(c, Cube(RSub(t, a.origin_point)))

cubic_function(a, t) == RAdd(CubicTerm(a, t), a.wmax)

\* now is the value of time.time(); min(target, cwnd + 1/cwnd) is taken by
\* comparing c*(t-K)**3 with the two candidates less wmax
CubicOnAck(a, ack_num, t_now) ==
    IF a.state = "slow_start"
    THEN LET w == RAdd(a.cwnd, One)
         IN IF RGe(w, a.ssthresh)
            THEN [a EXCEPT !.cwnd = w, !.state = "congestion_avoidance",
                           !.epoch_start = t_now]
            ELSE [a EXCEPT !.cwnd = w]
    ELSE IF a.state = "congestion_avoidance"
    THEN LET t == RSub(t_now, a.epoch_start)
             grown == AdditiveIncrease(a.cwnd)
             term == CubicTerm(a, t)
             above == RGt(term, RSub(a.cwnd, a.wmax))
             below == RLt(term, RSub(grown, a.wmax))
         IN IF above
            THEN [a EXCEPT !.cwnd = IF below THEN cubic_function(a, t) ELSE grown]
            ELSE [a EXCEPT !.cwnd = grown]
    ELSE a

\* A variant of on_loss_detected that records wmax after shrinking the window
CubicOnLoss_late_wmax(a, t_now) ==
    LET w == RMul(a.cwnd, beta)
    IN [a EXCEPT !.wmax = w,
                 !.cwnd = w,
                 !.ssthresh = w,
                 !.state = "congestion_avoidance",
                 !.epoch_start = t_now,
                 !.origin_point = CubeRoot(RDiv(RMul(a.cwnd, RSub(One, beta)), c))]

CubicOnLoss(a, t_now) ==
    LET w == RMul(a.cwnd, beta)
    IN [a EXCEPT !.wmax = a.cwnd,
                 !.cwnd = w,
                 !.ssthresh = w,
                 !.state = "congestion_avoidance",
                 !.epoch_start = t_now,
                 !.origin_point = CubeRoot(RDiv(RMul(a.cwnd, RSub(One, beta)), c))]

\* ------------------------------------------------------------ BBR
bbr_high_gain == <<577, 200>>
bbr_drain_gain == RDiv(One, bbr_high_gain)
bbr_cwnd_gain == <<2, 1>>
bbr_probe_rtt_time == <<1, 5>>
bbr_rtprop_filterlen == <<10, 1>>
pacing_gain_cycle == << <<5, 4>>, <<3, 4>>, One, One, One, One, One, One >>

BBRInit ==
    [bw_estimate |-> Num(1000000), min_rtt |-> Inf, rtprop_stamp |-> Zero,
     probe_rtt_done_stamp |-> Zero, pacing_rate |-> Num(1000000),
     cwnd |-> Num(10), ssthresh |-> Num(65535),
     state |-> "STARTUP", cycle_index |-> 0, cycle_stamp |-> Zero, prior_cwnd |-> Zero,
     pacing_gain |-> One, packet_count |-> 0, delivered |-> 0, delivery_rate |-> 0,
     round_start |-> TRUE, full_bw_reached |-> FALSE, full_bw |-> Zero,
     full_bw_count |-> 0]

update_bandwidth_estimate(b, delivered_bytes, elapsed_time) ==
    IF RGt(elapsed_time, Zero)
    THEN LET current_bw == RDiv(delivered_bytes, elapsed_time)
         IN IF RGt(current_bw, b.bw_estimate) \/ RGt(elapsed_time, One)
            THEN [b EXCEPT !.bw_estimate = current_bw]
            ELSE b
    ELSE b

update_min_rtt(b, rtt, current_time) ==
    IF RLt(rtt, b.min_rtt) \/ RGt(RSub(current_time, b.rtprop_stamp), bbr_rtprop_filterlen)
    THEN [b EXCEPT !.min_rtt = rtt, !.rtprop_stamp = current_time]
    ELSE b

\* A variant of check_startup_done that calls the pipe full after 2 rounds
\* without growth
check_startup_done_two_rounds(b) ==
    IF b.full_bw_reached THEN b
    ELSE LET b1 == IF RGe(b.bw_estimate, RMul(b.full_bw, <<5, 4>>))
                   THEN [b EXCEPT !.full_bw = b.bw_estimate, !.full_bw_count = 0]
                   ELSE [b EXCEPT !.full_bw_count = @ + 1]
         IN IF b1.full_bw_count >= 2 THEN [b1 EXCEPT !.full_bw_reached = TRUE] ELSE b1

\* The state check_startup_done leaves; it returns that state's full_bw_reached
check_startup_done(b) ==
    IF b.full_bw_reached THEN b
    ELSE LET b1 == IF RGe(b.bw_estimate, RMul(b.full_bw, <<5, 4>>))
                   THEN [b EXCEPT !.full_bw = b.bw_estimate, !.full_bw_count = 0]
                   ELSE [b EXCEPT !.full_bw_count = @ + 1]
         IN IF b1.full_bw_count >= 3 THEN [b1 EXCEPT !.full_bw_reached = TRUE] ELSE b1

set_pacing_rate(b) ==
    [b EXCEPT !.pacing_rate = RMax(RMul(b.bw_estimate, b.pacing_gain), Num(1000))]

set_cwnd(b) ==
    IF IsInf(b.min_rtt) THEN b
    ELSE LET bdp == RMul(b.bw_estimate, b.min_rtt)
             cwnd == RMul(bdp, bbr_cwnd_gain)
         IN IF b.state = "PROBE_RTT"
            THEN [b EXCEPT !.cwnd = RMax(Num(4), bdp)]
            ELSE [b EXCEPT !.cwnd = RMax(cwnd, Num(4))]

\* A variant of advance_cycle_phase that advances once min_rtt seconds have
\* passed, not only after more than that
advance_cycle_phase_at_min_rtt(b, current_time) ==
    IF RGe(RSub(current_time, b.cycle_stamp), b.min_rtt)
    THEN LET i == (b.cycle_index + 1) % Len(pacing_gain_cycle)
         IN [b EXCEPT !.cycle_index = i,
                      !.pacing_gain = pacing_gain_cycle[i + 1],
                      !.cycle_stamp = current_time]
    ELSE b

\* A variant of advance_cycle_phase that takes the gain at the index it leaves
advance_cycle_phase_stale_gain(b, current_time) ==
    IF RGt(RSub(current_time, b.cycle_stamp), b.min_rtt)
    THEN LET i == (b.cycle_index + 1) % Len(pacing_gain_cycle)
         IN [b EXCEPT !.cycle_index = i,
                      !.pacing_gain = pacing_gain_cycle[b.cycle_index + 1],
                      !.cycle_stamp = current_time]
    ELSE b

advance_cycle_phase(b, current_time) ==
    IF RGt(RSub(current_time, b.cycle_stamp), b.min_rtt)
    THEN LET i == (b.cycle_index + 1) % Len(pacing_gain_cycle)
         IN [b EXCEPT !.cycle_index = i,
                      !.pacing_gain = pacing_gain_cycle[i + 1],
                      !.cycle_stamp = current_time]
    ELSE b

check_probe_rtt(b, current_time) ==
    IF b.state # "PROBE_RTT"
       /\ RGt(RSub(current_time, b.rtprop_stamp), bbr_rtprop_filterlen)
    THEN [b EXCEPT !.state = "PROBE_RTT",
                   !.pacing_gain = One,
                   !.prior_cwnd = b.cwnd,
                   !.probe_rtt_done_stamp = RAdd(current_time, bbr_probe_rtt_time)]
    ELSE b

\* A variant of handle_probe_rtt that leaves PROBE_RTT only after the deadline
\* has passed, not at the deadline itself
handle_probe_rtt_after_deadline(b, current_time) ==
    IF RGt(current_time, b.probe_rtt_done_stamp)
    THEN [b EXCEPT !.rtprop_stamp = current_time,
                   !.cwnd = IF RGt(b.prior_cwnd, Zero) THEN RMax(b.cwnd, b.prior_cwnd) ELSE @,
                   !.state = "PROBE_BW",
                   !.cycle_index = 0,
                   !.pacing_gain = pacing_gain_cycle[1],
                   !.cycle_stamp = current_time]
    ELSE b

\* A variant of handle_probe_rtt that starts over in STARTUP when the probe is
\* done
handle_probe_rtt_restart(b, current_time) ==
    IF RGe(current_time, b.probe_rtt_done_stamp)
    THEN [b EXCEPT !.rtprop_stamp = current_time,
                   !.cwnd = IF RGt(b.prior_cwnd, Zero) THEN RMax(b.cwnd, b.prior_cwnd) ELSE @,
                   !.state = "STARTUP",
                   !.cycle_index = 0,
                   !.pacing_gain = pacing_gain_cycle[1],
                   !.cycle_stamp = current_time]
    ELSE b

handle_probe_rtt(b, current_time) ==
    IF RGe(current_time, b.probe_rtt_done_stamp)
    THEN [b EXCEPT !.rtprop_stamp = current_time,
                   !.cwnd = IF RGt(b.prior_cwnd, Zero) THEN RMax(b.cwnd, b.prior_cwnd) ELSE @,
                   !.state = "PROBE_BW",
                   !.cycle_index = 0,
                   !.pacing_gain = pacing_gain_cycle[1],
                   !.cycle_stamp = current_time]
    ELSE b

\* A variant of the branch that leaves DRAIN once cwnd is down to the window
\* target bbr_cwnd_gain * bdp
BBRStateMachine_drain_to_target(b, current_time) ==
    IF b.state = "STARTUP"
    THEN LET b1 == check_startup_done([b EXCEPT !.pacing_gain = bbr_high_gain])
         IN IF b1.full_bw_reached
            THEN [b1 EXCEPT !.state = "DRAIN", !.pacing_gain = bbr_drain_gain]
            ELSE b1
    ELSE IF b.state = "DRAIN"
    THEN IF RLe(b.cwnd, RMul(RMul(b.bw_estimate, b.min_rtt), bbr_cwnd_gain))
         THEN [b EXCEPT !.state = "PROBE_BW", !.cycle_index = 0,
                        !.pacing_gain = One, !.cycle_stamp = current_time]
         ELSE b
    ELSE IF b.state = "PROBE_BW"
    THEN advance_cycle_phase(b, current_time)
    ELSE b

\* The STARTUP / DRAIN / PROBE_BW branch of on_ack_received
BBRStateMachine(b, current_time) ==
    IF b.state = "STARTUP"
    THEN LET b1 == check_startup_done([b EXCEPT !.pacing_gain = bbr_high_gain])
         IN IF b1.full_bw_reached
            THEN [b1 EXCEPT !.state = "DRAIN", !.pacing_gain = bbr_drain_gain]
            ELSE b1
    ELSE IF b.state = "DRAIN"
    THEN IF RLe(b.cwnd, RMul(b.bw_estimate, b.min_rtt))
         THEN [b EXCEPT !.state = "PROBE_BW", !.cycle_index = 0,
                        !.pacing_gain = One, !.cycle_stamp = current_time]
         ELSE b
    ELSE IF b.state = "PROBE_BW"
    THEN advance_cycle_phase(b, current_time)
    ELSE b

\* Each step of on_ack_received works on the object as the step before left it
\* (b1 .. b6, read from the bottom up)
BBROnAck(b, ack_num, rtt, delivered_bytes, elapsed_time, current_time) ==
    CHOOSE after \in
        {[b6 EXCEPT !.packet_count = @ + 1] :
           b6 \in {set_cwnd(b5p) :
           b5p \in {set_pacing_rate(b5) :
           b5 \in {IF b4.state = "PROBE_RTT" THEN handle_probe_rtt(b4, current_time) ELSE b4 :
           b4 \in {check_probe_rtt(b3, current_time) :
           b3 \in {BBRStateMachine(b2, current_time) :
           b2 \in {IF RGt(elapsed_time, Zero)
                   THEN update_bandwidth_estimate(b1, delivered_bytes, elapsed_time)
                   ELSE b1 :
           b1 \in {IF Truthy(rtt) THEN update_min_rtt(b, rtt, current_time) ELSE b}}}}}}}} : TRUE

\* A variant of on_loss_detected that halves the window as a loss-based
\* algorithm would
BBROnLoss_halving(b) == [b EXCEPT !.cwnd = RMax(RDiv(@, Num(2)), Num(4))]

BBROnLoss(b) == b

\* ------------------------------------------------------------ adaptive controller
AlgorithmType == {"reno", "cubic", "tahoe", "bbr"}
NetworkCondition == {"excellent", "good", "congested", "lossy", "high_bw"}

switch_cooldown == <<10, 1>>
rtt_threshold_high == <<100, 1>>
rtt_threshold_excellent == <<20, 1>>
loss_threshold_high == <<1, 50>>
loss_threshold_low == <<1, 1000>>
bandwidth_threshold_high == Num(10 * 1024 * 1024)
HistoryLimit == 50

_initialize_algorithm(algorithm_type) ==
    CASE algorithm_type = "reno" -> RenoInit
      [] algorithm_type = "cubic" -> CubicInit
      [] algorithm_type = "tahoe" -> TahoeInit
      [] algorithm_type = "bbr" -> BBRInit

\* AdaptiveTCPCongestionControl.__init__ at time t
NewController(initial_algorithm, t) ==
    [algorithm_type |-> initial_algorithm,
     algorithm |-> _initialize_algorithm(initial_algorithm),
     packets_sent |-> 0,
     packets_lost |-> 0,
     rtt_history |-> << >>,
     bandwidth_history |-> << >>,
     start_time |-> t,
     last_switch_time |-> t,
     algorithm_performance |->
         [k \in AlgorithmType |->
             [switches |-> 0, total_time |-> Zero, performance_score |-> Zero]]]

\* s[-n:]
LastN(s, n) == IF Len(s) <= n THEN s ELSE SubSeq(s, Len(s) - n + 1, Len(s))

RECURSIVE SumSeq(_)
SumSeq(s) == IF s = << >> THEN Zero ELSE RAdd(Head(s), SumSeq(Tail(s)))

MinInt(a, b) == IF a < b THEN a ELSE b

get_packet_loss_rate(ctl) ==
    IF ctl.packets_sent = 0 THEN Zero ELSE Rat(ctl.packets_lost, ctl.packets_sent)

\* A variant of detect_network_condition that looks at the RTT before the loss
detect_network_condition_rtt_first(ctl) ==
    IF Len(ctl.rtt_history) < 5 THEN "good"
    ELSE LET recent_rtt == RDiv(SumSeq(LastN(ctl.rtt_history, 10)),
                                Num(MinInt(Len(ctl.rtt_history), 10)))
             loss_rate == get_packet_loss_rate(ctl)
             recent_bandwidth ==
                 RDiv(SumSeq(LastN(ctl.bandwidth_history, 5)),
                      Num(MinInt(Len(ctl.bandwidth_history), 5)))
         IN IF RGt(recent_rtt, rtt_threshold_high)
            THEN IF RGt(recent_bandwidth, bandwidth_threshold_high)
                 THEN "high_bw" ELSE "congested"
            ELSE IF RGt(loss_rate, loss_threshold_high) THEN "lossy"
            ELSE IF RLt(recent_rtt, rtt_threshold_excellent)
                    /\ RLt(loss_rate, loss_threshold_low)
            THEN "excellent"
            ELSE "good"

\* A variant of detect_network_condition that classifies from the third sample on
detect_network_condition_three_samples(ctl) ==
    IF Len(ctl.rtt_history) < 3 THEN "good"
    ELSE LET recent_rtt == RDiv(SumSeq(LastN(ctl.rtt_history, 10)),
                                Num(MinInt(Len(ctl.rtt_history), 10)))
             loss_rate == get_packet_loss_rate(ctl)
             recent_bandwidth ==
                 RDiv(SumSeq(LastN(ctl.bandwidth_history, 5)),
                      Num(MinInt(Len(ctl.bandwidth_history), 5)))
         IN IF RGt(loss_rate, loss_threshold_high) THEN "lossy"
            ELSE IF RGt(recent_rtt, rtt_threshold_high)
            THEN IF RGt(recent_bandwidth, bandwidth_threshold_high)
                 THEN "high_bw" ELSE "congested"
            ELSE IF RLt(recent_rtt, rtt_threshold_excellent)
                    /\ RLt(loss_rate, loss_threshold_low)
            THEN "excellent"
            ELSE "good"

detect_network_condition(ctl) ==
    IF Len(ctl.rtt_history) < 5 THEN "good"
    ELSE LET recent_rtt == RDiv(SumSeq(LastN(ctl.rtt_history, 10)),
                                Num(MinInt(Len(ctl.rtt_history), 10)))
             loss_rate == get_packet_loss_rate(ctl)
             recent_bandwidth ==
                 IF ctl.bandwidth_history # << >>
                 THEN RDiv(SumSeq(LastN(ctl.bandwidth_history, 5)),
                           Num(MinInt(Len(ctl.bandwidth_history), 5)))
                 ELSE Zero
         IN IF RGt(loss_rate, loss_threshold_high) THEN "lossy"
            ELSE IF RGt(recent_rtt, rtt_threshold_high)
            THEN IF RGt(recent_bandwidth, bandwidth_threshold_high)
                 THEN "high_bw" ELSE "congested"
            ELSE IF RLt(recent_rtt, rtt_threshold_excellent)
                    /\ RLt(loss_rate, loss_threshold_low)
            THEN "excellent"
            ELSE "good"

get_optimal_algorithm(condition) ==
    CASE condition = "excellent" -> "bbr"
      [] condition = "good" -> "cubic"
      [] condition = "congested" -> "reno"
      [] condition = "lossy" -> "tahoe"
      [] condition = "high_bw" -> "cubic"
      [] OTHER -> "reno"

\* A variant of should_switch_algorithm whose cooldown lasts 50 ms
should_switch_algorithm_short_cooldown(ctl, target_algorithm, current_time) ==
    IF RLt(RSub(current_time, ctl.last_switch_time), <<1, 20>>) THEN FALSE
    ELSE target_algorithm # ctl.algorithm_type

\* A variant of should_switch_algorithm that lets the score comparison decide
should_switch_algorithm_score_gate(ctl, target_algorithm, current_time) ==
    IF RLt(RSub(current_time, ctl.last_switch_time), switch_cooldown) THEN FALSE
    ELSE IF target_algorithm = ctl.algorithm_type THEN FALSE
    ELSE LET current_perf == ctl.algorithm_performance[ctl.algorithm_type].performance_score
             target_perf == ctl.algorithm_performance[target_algorithm].performance_score
         IN RGt(target_perf, RMul(current_perf, <<11, 10>>)) \/ RLt(current_perf, <<1, 2>>)

should_switch_algorithm(ctl, target_algorithm, current_time) ==
    IF RLt(RSub(current_time, ctl.last_switch_time), switch_cooldown) THEN FALSE
    ELSE IF target_algorithm = ctl.algorithm_type THEN FALSE
    ELSE LET current_perf == ctl.algorithm_performance[ctl.algorithm_type].performance_score
             target_perf == ctl.algorithm_performance[target_algorithm].performance_score
         IN IF RGt(target_perf, RMul(current_perf, <<11, 10>>))
               \/ RLt(current_perf, <<1, 2>>)
            THEN TRUE
            ELSE TRUE

RECURSIVE SumSquares(_, _)
SumSquares(s, mean) ==
    IF s = << >> THEN Zero
    ELSE LET dev == RSub(Head(s), mean)
         IN RAdd(RMul(dev, dev), SumSquares(Tail(s), mean))

_calculate_rtt_variance(ctl) ==
    IF Len(ctl.rtt_history) < 3 THEN Zero
    ELSE LET recent_rtts == LastN(ctl.rtt_history, 10)
             mean_rtt == RDiv(SumSeq(recent_rtts), Num(Len(recent_rtts)))
             variance == RDiv(SumSquares(recent_rtts, mean_rtt), Num(Len(recent_rtts)))
         IN SquareRoot(variance)

calculate_performance_score(ctl) ==
    IF ctl.packets_sent = 0 THEN <<1, 2>>
    ELSE LET loss_rate == get_packet_loss_rate(ctl)
             avg_bandwidth ==
                 IF ctl.bandwidth_history # << >>
                 THEN RDiv(SumSeq(LastN(ctl.bandwidth_history, 10)),
                           Num(MinInt(Len(ctl.bandwidth_history), 10)))
                 ELSE Zero
             rtt_stability == RDiv(One, RAdd(One, _calculate_rtt_variance(ctl)))
             throughput_score == RMin(RDiv(avg_bandwidth, Num(1000000)), One)
             loss_penalty == RSub(One, RMin(RMul(loss_rate, Num(50)), One))
         IN RAdd(RAdd(RMul(throughput_score, <<1, 2>>), RMul(loss_penalty, <<3, 10>>)),
                 RMul(rtt_stability, <<1, 5>>))

\* A variant of switch_algorithm that starts the new algorithm from its own
\* initial window
switch_algorithm_fresh_window(ctl, new_algorithm, current_time) ==
    IF new_algorithm = ctl.algorithm_type THEN ctl
    ELSE [ctl EXCEPT
            !.algorithm_performance[ctl.algorithm_type].total_time =
                 RAdd(@, RSub(current_time, ctl.last_switch_time)),
            !.algorithm_performance[new_algorithm].switches = @ + 1,
            !.algorithm_type = new_algorithm,
            !.algorithm = _initialize_algorithm(new_algorithm),
            !.last_switch_time = current_time]

\* A variant of switch_algorithm that books the elapsed active time on the
\* incoming kind's record
switch_algorithm_time_to_incoming(ctl, new_algorithm, current_time) ==
    IF new_algorithm = ctl.algorithm_type THEN ctl
    ELSE LET current_cwnd == ctl.algorithm.cwnd
             current_ssthresh == ctl.algorithm.ssthresh
             fresh == _initialize_algorithm(new_algorithm)
         IN [ctl EXCEPT
               !.algorithm_performance[new_algorithm].total_time =
                    RAdd(@, RSub(current_time, ctl.last_switch_time)),
               !.algorithm_performance[new_algorithm].switches = @ + 1,
               !.algorithm_type = new_algorithm,
               !.algorithm = [fresh EXCEPT !.cwnd = current_cwnd,
                                           !.ssthresh = current_ssthresh],
               !.last_switch_time = current_time]

\* A value that is none of the four kinds gets as far as line 186, where
\* algorithm_performance[new_algorithm] raises KeyError
switch_algorithm(ctl, new_algorithm, current_time) ==
    IF new_algorithm = ctl.algorithm_type THEN ctl
    ELSE IF new_algorithm \notin AlgorithmType
    THEN [ctl EXCEPT
            !.algorithm_performance[ctl.algorithm_type].total_time =
                 RAdd(@, RSub(current_time, ctl.last_switch_time))]
    ELSE LET old_algorithm == ctl.algorithm_type
             current_cwnd == ctl.algorithm.cwnd
             current_ssthresh == ctl.algorithm.ssthresh
             fresh == _initialize_algorithm(new_algorithm)
         IN [ctl EXCEPT
               !.algorithm_performance[old_algorithm].total_time =
                    RAdd(@, RSub(current_time, ctl.last_switch_time)),
               !.algorithm_performance[new_algorithm].switches = @ + 1,
               !.algorithm_type = new_algorithm,
               !.algorithm = [fresh EXCEPT !.cwnd = current_cwnd,
                                           !.ssthresh = current_ssthresh],
               !.last_switch_time = current_time]

\* A variant of adaptive_algorithm_switch whose bound keeps the oldest entries
\* (history[:50] in place of history[-50:])
adaptive_algorithm_switch_keep_oldest(ctl, rtt, bandwidth, current_time) ==
    LET c1 == [ctl EXCEPT
                 !.rtt_history = SubSeq(Append(@, rtt), 1, MinInt(Len(@) + 1, HistoryLimit)),
                 !.bandwidth_history =
                     SubSeq(Append(@, bandwidth), 1, MinInt(Len(@) + 1, HistoryLimit))]
        c2 == [c1 EXCEPT
                 !.algorithm_performance[c1.algorithm_type].performance_score =
                     calculate_performance_score(c1)]
        condition == detect_network_condition(c2)
        optimal_algorithm == get_optimal_algorithm(condition)
    IN IF should_switch_algorithm(c2, optimal_algorithm, current_time)
       THEN switch_algorithm(c2, optimal_algorithm, current_time)
       ELSE c2

adaptive_algorithm_switch(ctl, rtt, bandwidth, current_time) ==
    LET c1 == [ctl EXCEPT
                 !.rtt_history = LastN(Append(@, rtt), HistoryLimit),
                 !.bandwidth_history = LastN(Append(@, bandwidth), HistoryLimit)]
        c2 == [c1 EXCEPT
                 !.algorithm_performance[c1.algorithm_type].performance_score =
                     calculate_performance_score(c1)]
        condition == detect_network_condition(c2)
        optimal_algorithm == get_optimal_algorithm(condition)
    IN IF should_switch_algorithm(c2, optimal_algorithm, current_time)
       THEN switch_algorithm(c2, optimal_algorithm, current_time)
       ELSE c2

\* The active algorithm's on_ack_received, as the controller calls it
AlgorithmOnAck(ctl, ack_num, rtt, bandwidth, current_time) ==
    CASE ctl.algorithm_type = "bbr" ->
           IF Truthy(rtt) /\ Truthy(bandwidth)
           THEN BBROnAck(ctl.algorithm, ack_num, rtt, Num(1024), <<1, 1000>>, current_time)
           ELSE BBROnAck(ctl.algorithm, ack_num, None, Zero, Zero, current_time)
      [] ctl.algorithm_type = "reno" -> RenoOnAck(ctl.algorithm, ack_num)
      [] ctl.algorithm_type = "cubic" -> CubicOnAck(ctl.algorithm, ack_num, current_time)
      [] ctl.algorithm_type = "tahoe" -> TahoeOnAck(ctl.algorithm, ack_num)

\* A variant of on_ack_received that consults the switch policy before the
\* algorithm processes the ack, so that the ack goes to the algorithm the
\* policy chose
on_ack_received_policy_first(ctl, ack_num, rtt, bandwidth, current_time) ==
    LET c1 == IF Truthy(rtt) /\ Truthy(bandwidth)
              THEN adaptive_algorithm_switch(ctl, rtt, bandwidth, current_time)
              ELSE ctl
    IN [c1 EXCEPT !.algorithm = AlgorithmOnAck(c1, ack_num, rtt, bandwidth, current_time)]

on_ack_received(ctl, ack_num, rtt, bandwidth, current_time) ==
    LET c1 == [ctl EXCEPT !.algorithm =
                   AlgorithmOnAck(ctl, ack_num, rtt, bandwidth, current_time)]
    IN IF Truthy(rtt) /\ Truthy(bandwidth)
       THEN adaptive_algorithm_switch(c1, rtt, bandwidth, current_time)
       ELSE c1

\* A variant of on_loss_detected that counts the loss only when the active
\* algorithm has a method to hand it to
on_loss_detected_counted_if_handled(ctl, current_time) ==
    CASE ctl.algorithm_type = "cubic" ->
           [ctl EXCEPT !.packets_lost = @ + 1, !.algorithm = CubicOnLoss(@, current_time)]
      [] ctl.algorithm_type = "bbr" ->
           [ctl EXCEPT !.packets_lost = @ + 1, !.algorithm = BBROnLoss(@)]
      [] ctl.algorithm_type = "tahoe" ->
           [ctl EXCEPT !.packets_lost = @ + 1, !.algorithm = TahoeOnTimeout(@)]
      [] ctl.algorithm_type = "reno" -> ctl

\* A variant of on_loss_detected that treats a loss under Reno as a timeout, the
\* way Tahoe's on_timeout does
on_loss_detected_reno_timeout(ctl, current_time) ==
    LET c1 == [ctl EXCEPT !.packets_lost = @ + 1]
    IN CASE ctl.algorithm_type = "cubic" ->
              [c1 EXCEPT !.algorithm = CubicOnLoss(@, current_time)]
         [] ctl.algorithm_type = "bbr" -> [c1 EXCEPT !.algorithm = BBROnLoss(@)]
         [] ctl.algorithm_type = "tahoe" -> [c1 EXCEPT !.algorithm = TahoeOnTimeout(@)]
         [] ctl.algorithm_type = "reno" ->
              [c1 EXCEPT !.algorithm =
                  [@ EXCEPT !.ssthresh = RMax(RDiv(ctl.algorithm.cwnd, Num(2)), Num(2)),
                            !.cwnd = One,
                            !.state = "slow_start"]]

\* hasattr(algorithm, 'on_loss_detected') holds for Cubic and BBR, and
\* hasattr(algorithm, 'on_timeout') for Tahoe; Reno has neither method
on_loss_detected(ctl, current_time) ==
    LET c1 == [ctl EXCEPT !.packets_lost = @ + 1]
    IN CASE ctl.algorithm_type = "cubic" ->
              [c1 EXCEPT !.algorithm = CubicOnLoss(@, current_time)]
         [] ctl.algorithm_type = "bbr" -> [c1 EXCEPT !.algorithm = BBROnLoss(@)]
         [] ctl.algorithm_type = "tahoe" -> [c1 EXCEPT !.algorithm = TahoeOnTimeout(@)]
         [] ctl.algorithm_type = "reno" -> c1

on_data_sent(ctl) == [ctl EXCEPT !.packets_sent = @ + 1]

get_current_cwnd(ctl) == ctl.algorithm.cwnd
get_ssthresh(ctl) == ctl.algorithm.ssthresh

\* ------------------------------------------------------------ one controller
VARIABLES
    now,        \* time.time()
    ctl,        \* one AdaptiveTCPCongestionControl
    last_call,  \* the call made by the last step
    dup_run,    \* run of duplicate acks seen by the active algorithm of ctl
    n_calls,    \* steps taken so far
    reno,       \* one RenoAlgorithm used on its own
    bbr,        \* one BBRAlgorithm used on its own
    clients,    \* ConnectionManager.clients: client id -> ClientConnection
    next_id,    \* the next client id uuid4() hands out
    returned,   \* the value the last registry call returned
    fed,        \* per client: when it was last fed, and whether no gap was too long
    streaming,  \* client ids whose download generator holds the client object
    lock,       \* ConnectionManager.lock: the thread that holds it, or None
    pc,         \* per thread: the statement it stands at
    held,       \* per thread: its local variables
    detached,   \* client objects deleted from the registry, by client id
    feed_log,   \* per client object: the feeds completed on it, in order of completion
    swept       \* per client id: the threads whose cleanup call counted it as removed

controllerVars == <<ctl, dup_run>>
unitVars == <<reno, bbr>>
registryVars == <<clients, next_id, returned, fed, streaming>>
threadVars == <<lock, pc, held, detached, feed_log, swept>>
vars == <<now, last_call, n_calls, controllerVars, unitVars, registryVars, threadVars>>

\* time.time() when the model starts (seconds since the epoch)
StartTime == <<1000, 1>>

\* (rtt, bandwidth) arguments of an ack: none, or a sample pair
NoSample == [rtt |-> None, bandwidth |-> None]
FastSample == [rtt |-> Num(5), bandwidth |-> Num(60000000)]
SlowSample == [rtt |-> Num(150), bandwidth |-> Num(500000)]
Samples == {NoSample, FastSample, SlowSample}
TimeSteps == {<<1, 10>>, <<10, 1>>}

Call(op, ack_num, target) == [op |-> op, ack_num |-> ack_num, target |-> target]

\* The arithmetic of the next event stays within the model's integers
AckFits(k) ==
    \/ k.algorithm_type = "bbr"
    \/ k.algorithm.state = "slow_start"
    \/ Small(k.algorithm.cwnd)
    \/ RGe(k.algorithm.cwnd, Num(FloatAbsorbs))
LossFits(k) == k.algorithm_type # "cubic" \/ Small(k.algorithm.cwnd)

\* A controller built at StartTime that has since received n acks numbered 1,
\* each with the sample smp, all at StartTime
RECURSIVE Warmed(_, _, _)
Warmed(k, smp, n) ==
    IF n = 0 THEN NewController(k, StartTime)
    ELSE on_ack_received(Warmed(k, smp, n - 1), 1, smp.rtt, smp.bandwidth, StartTime)

\* The parts of the state a specification leaves in their constructed state
IdleUnit == reno = RenoInit /\ bbr = BBRInit
IdleRegistry ==
    /\ clients = <<>>
    /\ next_id = 1
    /\ returned = None
    /\ fed = <<>>
    /\ streaming = {}

\* The threads of the server: the cleanup thread the manager starts, cleanup_task
\* and generate_sample_metrics of the application, a request thread streaming a
\* download and a request thread serving /api/disconnect
Sweepers == {"cleanup_thread", "cleanup_task"}
Threads == Sweepers \cup {"sampler", "worker", "handler"}

NoLocals == [client |-> None, draw |-> None, seen |-> {}, batch |-> {}, missing |-> 0]

IdleThreads ==
    /\ lock = None
    /\ pc = [t \in Threads |-> "idle"]
    /\ held = [t \in Threads |-> NoLocals]
    /\ detached = <<>>
    /\ feed_log = <<>>
    /\ swept = <<>>

Init ==
    /\ now = StartTime
    /\ n_calls = 0
    /\ IdleUnit
    /\ IdleRegistry
    /\ IdleThreads
    /\ \E k \in AlgorithmType :
          \/ /\ ctl = NewController(k, StartTime)
             /\ last_call = Call("init", 0, None)
             /\ dup_run = [ack_num |-> 0, count |-> 0]
          \/ \E smp \in Samples :
             /\ ctl = Warmed(k, smp, WarmAcks)
             /\ last_call = Call("ack", 1, smp)
             /\ dup_run = [ack_num |-> 1, count |-> WarmAcks - 1]

\* on_ack_received(ack_num, rtt, bandwidth) on the controller; dup_run counts the
\* acks in a row, to the algorithm instance now active, that repeat the ack
\* number of the ack before them
FeedAck(a, smp) ==
    /\ n_calls < MaxSteps
    /\ AckFits(ctl)
    /\ ctl' = on_ack_received(ctl, a, smp.rtt, smp.bandwidth, now)
    /\ dup_run' = IF ctl'.algorithm_type # ctl.algorithm_type
                  THEN [ack_num |-> 0, count |-> 0]
                  ELSE IF a = dup_run.ack_num THEN [dup_run EXCEPT !.count = @ + 1]
                  ELSE [ack_num |-> a, count |-> 0]
    /\ last_call' = Call("ack", a, smp)
    /\ n_calls' = n_calls + 1
    /\ UNCHANGED <<now, unitVars, registryVars, threadVars>>

\* on_loss_detected() on the controller
FeedLoss ==
    /\ n_calls < MaxSteps
    /\ LossFits(ctl)
    /\ ctl' = on_loss_detected(ctl, now)
    /\ last_call' = Call("loss", 0, None)
    /\ n_calls' = n_calls + 1
    /\ UNCHANGED <<now, dup_run, unitVars, registryVars, threadVars>>

\* on_data_sent(bytes_sent) on the controller
DataSent ==
    /\ n_calls < MaxSteps
    /\ ctl' = on_data_sent(ctl)
    /\ last_call' = Call("sent", 0, None)
    /\ n_calls' = n_calls + 1
    /\ UNCHANGED <<now, dup_run, unitVars, registryVars, threadVars>>

\* switch_algorithm(new_algorithm) called directly (reason "Manual")
ManualSwitch(k) ==
    /\ n_calls < MaxSteps
    /\ ctl' = switch_algorithm(ctl, k, now)
    /\ last_call' = Call("switch", 0, k)
    /\ dup_run' = IF ctl'.algorithm_type # ctl.algorithm_type
                  THEN [ack_num |-> 0, count |-> 0] ELSE dup_run
    /\ n_calls' = n_calls + 1
    /\ UNCHANGED <<now, unitVars, registryVars, threadVars>>

\* The clock advances between two calls
Tick(d) ==
    /\ n_calls < MaxSteps
    /\ now' = RAdd(now, d)
    /\ last_call' = Call("tick", 0, None)
    /\ n_calls' = n_calls + 1
    /\ UNCHANGED <<controllerVars, unitVars, registryVars, threadVars>>

Next ==
    \/ \E a \in AckNums, smp \in Samples : FeedAck(a, smp)
    \/ FeedLoss
    \/ DataSent
    \/ \E k \in AlgorithmType : ManualSwitch(k)
    \/ \E d \in TimeSteps : Tick(d)

Spec == Init /\ [][Next]_vars

\* ------------------------------------------------------------ unusual arguments
\* One controller given arguments the callers of the repository never pass: a
\* kind that is not an AlgorithmType, and samples with an rtt or a bandwidth
\* that is zero or negative
InvalidKinds == {"vegas"}
NegativeRtt == [rtt |-> Num(-5), bandwidth |-> Num(1000000)]
ZeroRtt == [rtt |-> Zero, bandwidth |-> Num(1000000)]
ZeroBandwidth == [rtt |-> Num(5), bandwidth |-> Zero]
EdgeSamples == {NegativeRtt, ZeroRtt, ZeroBandwidth, FastSample}

InitEdge ==
    /\ now = StartTime
    /\ n_calls = 0
    /\ last_call = Call("init", 0, None)
    /\ dup_run = [ack_num |-> 0, count |-> 0]
    /\ \E k \in AlgorithmType : ctl = NewController(k, StartTime)
    /\ IdleUnit
    /\ IdleRegistry
    /\ IdleThreads

EdgeAck(a, smp) == n_calls < MaxEdgeSteps /\ FeedAck(a, smp)
EdgeSwitch(k) == n_calls < MaxEdgeSteps /\ ManualSwitch(k)
EdgeTick(d) == n_calls < MaxEdgeSteps /\ Tick(d)

NextEdge ==
    \/ \E a \in AckNums, smp \in EdgeSamples : EdgeAck(a, smp)
    \/ \E k \in AlgorithmType \cup InvalidKinds : EdgeSwitch(k)
    \/ \E d \in TimeSteps : EdgeTick(d)

SpecEdge == InitEdge /\ [][NextEdge]_vars

\* ------------------------------------------------------------ the classifier
\* One Reno controller that has sent and lost packets and has then received a
\* run of acks with one sample followed by a run with another, all at
\* StartTime; detect_network_condition() is then called on it
ClassifierRtts == {5, 20, 100, 150}
ClassifierBandwidths == {500000, 10485760, 60000000}
ClassifierSamples ==
    {[rtt |-> Num(r), bandwidth |-> Num(b)] : r \in ClassifierRtts, b \in ClassifierBandwidths}
\* packets_sent and packets_lost: loss rates 0 (nothing sent), 0, 0.0005, 0.001,
\* 0.005, 0.02 and 0.03
PacketCounts ==
    {<<0, 3>>, <<1000, 0>>, <<2000, 1>>, <<1000, 1>>, <<1000, 5>>, <<50, 1>>, <<100, 3>>}
OlderRuns == {0, 7}
RecentRuns == {0, 3, 4, 5, 10}

\* The Reno controller after sent calls of on_data_sent and lost calls of
\* on_loss_detected, which only count for Reno
Counted(sent, lost) ==
    [NewController("reno", StartTime) EXCEPT !.packets_sent = sent, !.packets_lost = lost]

\* k after n more acks numbered 1 with the sample smp, at StartTime
RECURSIVE AfterAcks(_, _, _)
AfterAcks(k, smp, n) ==
    IF n = 0 THEN k
    ELSE IF n = 1
    THEN CHOOSE after \in {on_ack_received(before, 1, smp.rtt, smp.bandwidth, StartTime) :
                            before \in {k}} : TRUE
    ELSE CHOOSE after \in {AfterAcks(half, smp, n - (n \div 2)) :
                            half \in {AfterAcks(k, smp, n \div 2)}} : TRUE

InitClassifier ==
    /\ now = StartTime
    /\ n_calls = 0
    /\ last_call = Call("init", 0, None)
    /\ dup_run = [ack_num |-> 0, count |-> 0]
    /\ \E p \in PacketCounts, older \in {FastSample, SlowSample}, n_older \in OlderRuns,
          recent \in ClassifierSamples, n_recent \in RecentRuns :
          ctl = AfterAcks(AfterAcks(Counted(p[1], p[2]), older, n_older), recent, n_recent)
    /\ IdleUnit
    /\ IdleRegistry
    /\ IdleThreads

\* detect_network_condition()
Classify ==
    /\ n_calls < MaxClassifierSteps
    /\ returned' = detect_network_condition(ctl)
    /\ last_call' = Call("classify", 0, None)
    /\ n_calls' = n_calls + 1
    /\ UNCHANGED <<now, controllerVars, unitVars, clients, next_id, fed, streaming, threadVars>>

ClassifierAck(smp) == n_calls < MaxClassifierSteps /\ FeedAck(1, smp)
ClassifierTick == n_calls < MaxClassifierSteps /\ Tick(switch_cooldown)

NextClassifier ==
    \/ Classify
    \/ \E smp \in {FastSample, SlowSample} : ClassifierAck(smp)
    \/ ClassifierTick

SpecClassifier == InitClassifier /\ [][NextClassifier]_vars

\* ------------------------------------------------------------ a full history
\* One controller of each kind whose sample history is nearly full or full: it
\* has received an older sample and then a run of another one, all at StartTime,
\* and goes on receiving acks
HistoryRuns == {HistoryLimit - 3, HistoryLimit - 2, HistoryLimit - 1}

InitHistory ==
    /\ now = StartTime
    /\ n_calls = 0
    /\ last_call = Call("init", 0, None)
    /\ dup_run = [ack_num |-> 0, count |-> 0]
    /\ \E k \in AlgorithmType, older \in {FastSample, SlowSample},
          recent \in {FastSample, SlowSample}, n_recent \in HistoryRuns :
          ctl = AfterAcks(AfterAcks(NewController(k, StartTime), older, 1), recent, n_recent)
    /\ IdleUnit
    /\ IdleRegistry
    /\ IdleThreads

HistoryAck(a, smp) == n_calls < MaxHistorySteps /\ FeedAck(a, smp)
HistoryLoss == n_calls < MaxHistorySteps /\ FeedLoss
HistoryTick == n_calls < MaxHistorySteps /\ Tick(switch_cooldown)

NextHistory ==
    \/ \E a \in AckNums, smp \in Samples : HistoryAck(a, smp)
    \/ HistoryLoss
    \/ HistoryTick

SpecHistory == InitHistory /\ [][NextHistory]_vars

\* ------------------------------------------------------------ Reno on its own
\* RenoAlgorithm driven through its two public methods, as a caller holding the
\* object can drive it
IdleController ==
    /\ ctl = NewController("reno", StartTime)
    /\ dup_run = [ack_num |-> 0, count |-> 0]

InitReno ==
    /\ now = StartTime
    /\ n_calls = 0
    /\ last_call = Call("init", 0, None)
    /\ reno = RenoInit
    /\ bbr = BBRInit
    /\ IdleController
    /\ IdleRegistry
    /\ IdleThreads

\* reno.on_ack_received(ack_num)
RenoAck(a) ==
    /\ n_calls < MaxRenoCalls
    /\ reno.state = "congestion_avoidance" => Small(reno.cwnd)
    /\ reno' = RenoOnAck(reno, a)
    /\ last_call' = Call("reno_ack", a, None)
    /\ n_calls' = n_calls + 1
    /\ UNCHANGED <<now, bbr, controllerVars, registryVars, threadVars>>

\* reno.enter_fast_recovery(ack_num)
RenoEnterFastRecovery(a) ==
    /\ n_calls < MaxRenoCalls
    /\ reno' = enter_fast_recovery(reno, a)
    /\ last_call' = Call("reno_enter_fast_recovery", a, None)
    /\ n_calls' = n_calls + 1
    /\ UNCHANGED <<now, bbr, controllerVars, registryVars, threadVars>>

NextReno ==
    \/ \E a \in AckNums : RenoAck(a)
    \/ \E a \in AckNums : RenoEnterFastRecovery(a)

SpecReno == InitReno /\ [][NextReno]_vars

\* ------------------------------------------------------------ BBR on its own
\* BBRAlgorithm driven through on_ack_received and on_loss_detected, as
\* test_bbr_algorithm drives it. An ack is the triple (rtt, delivered_bytes,
\* elapsed_time) of its keyword arguments; RTTs are in seconds
BareAck == [rtt |-> None, delivered_bytes |-> Zero, elapsed_time |-> Zero]
SteadyAck == [rtt |-> <<1, 10>>, delivered_bytes |-> Num(1024), elapsed_time |-> <<1, 1000>>]
ShortAck == [rtt |-> <<1, 20>>, delivered_bytes |-> Num(1024), elapsed_time |-> <<1, 1000>>]
FasterAck == [rtt |-> <<1, 10>>, delivered_bytes |-> Num(4096), elapsed_time |-> <<1, 1000>>]
FasterBareAck == [rtt |-> None, delivered_bytes |-> Num(4096), elapsed_time |-> <<1, 1000>>]
SlowerBareAck == [rtt |-> None, delivered_bytes |-> Num(1000), elapsed_time |-> Num(2)]
BBRAcks == <<BareAck, SteadyAck, ShortAck, FasterAck, FasterBareAck, SlowerBareAck>>
BBRTimeSteps == {<<1, 10>>, <<10, 1>>}

\* b.on_ack_received(1, **ack) at time t
BBRAckAt(b, ack, t) == BBROnAck(b, 1, ack.rtt, ack.delivered_bytes, ack.elapsed_time, t)

\* b after n acks, all at time t
RECURSIVE BBRAfterAcks(_, _, _, _)
BBRAfterAcks(b, ack, n, t) ==
    IF n = 0 THEN b
    ELSE CHOOSE after \in {BBRAckAt(before, ack, t) :
                            before \in {BBRAfterAcks(b, ack, n - 1, t)}} : TRUE

\* BBR objects built at StartTime: one near the end of STARTUP, one in DRAIN, one
\* in PROBE_BW, one that entered PROBE_RTT at StaleTime, and one that never had
\* an RTT sample and came to PROBE_BW through PROBE_RTT at UnsetTime
StaleTime == RAdd(StartTime, <<101, 10>>)
UnsetTime == RAdd(StartTime, bbr_probe_rtt_time)
InStartup == BBRAfterAcks(BBRInit, SteadyAck, 3, StartTime)
InDrain == BBRAfterAcks(BBRInit, SteadyAck, 4, StartTime)
InProbeBW == BBRAckAt(InDrain, FasterAck, StartTime)
InProbeRTT == BBRAckAt(InProbeBW, BareAck, StaleTime)
InProbeBWUnset == BBRAckAt(BBRAckAt(BBRInit, BareAck, StartTime), BareAck, UnsetTime)

InitBBR ==
    /\ n_calls = 0
    /\ last_call = Call("init", 0, None)
    /\ reno = RenoInit
    /\ \/ now = StartTime /\ bbr \in {BBRInit, InStartup, InDrain, InProbeBW}
       \/ now = StaleTime /\ bbr = InProbeRTT
       \/ now = UnsetTime /\ bbr = InProbeBWUnset
    /\ IdleController
    /\ IdleRegistry
    /\ IdleThreads

\* bbr.on_ack_received(1, rtt, delivered_bytes, elapsed_time)
BBRAck(ack) ==
    /\ n_calls < MaxBBRCalls
    /\ bbr' = BBRAckAt(bbr, ack, now)
    /\ last_call' = Call("bbr_ack", 1, ack)
    /\ n_calls' = n_calls + 1
    /\ UNCHANGED <<now, reno, controllerVars, registryVars, threadVars>>

\* bbr.on_loss_detected()
BBRLoss ==
    /\ n_calls < MaxBBRCalls
    /\ bbr' = BBROnLoss(bbr)
    /\ last_call' = Call("bbr_loss", 0, None)
    /\ n_calls' = n_calls + 1
    /\ UNCHANGED <<now, reno, controllerVars, registryVars, threadVars>>

\* The clock advances between two calls
BBRTick(d) ==
    /\ n_calls < MaxBBRCalls
    /\ now' = RAdd(now, d)
    /\ last_call' = Call("tick", 0, None)
    /\ n_calls' = n_calls + 1
    /\ UNCHANGED <<controllerVars, unitVars, registryVars, threadVars>>

NextBBR ==
    \/ \E i \in DOMAIN BBRAcks : BBRAck(BBRAcks[i])
    \/ BBRLoss
    \/ \E d \in BBRTimeSteps : BBRTick(d)

SpecBBR == InitBBR /\ [][NextBBR]_vars

\* ------------------------------------------------------------ BBR under steady acks
\* The BBR object that four acks with one sample have brought to DRAIN goes on
\* receiving acks with that same sample, numbered 1 or 2, for ever, while the
\* clock advances up to MaxSteadySeconds after StartTime. packet_count is
\* written and never read; past MaxPacketCount it is no longer counted, so that
\* the acks can go on
SteadyHorizon == RAdd(StartTime, Num(MaxSteadySeconds))

InitBBRSteady ==
    /\ now = StartTime
    /\ n_calls = 0
    /\ last_call = Call("bbr_ack", 1, SteadyAck)
    /\ reno = RenoInit
    /\ bbr = InDrain
    /\ IdleController
    /\ IdleRegistry
    /\ IdleThreads

\* bbr.on_ack_received(a, rtt, delivered_bytes, elapsed_time) with the steady sample
SteadyDrainAck(a) ==
    /\ bbr' = [BBROnAck(bbr, a, SteadyAck.rtt, SteadyAck.delivered_bytes,
                        SteadyAck.elapsed_time, now)
                 EXCEPT !.packet_count = MinInt(@, MaxPacketCount)]
    /\ last_call' = Call("bbr_ack", a, SteadyAck)
    /\ UNCHANGED <<now, n_calls, reno, controllerVars, registryVars, threadVars>>

\* The clock advances between two acks
SteadyTick(d) ==
    /\ RLe(RAdd(now, d), SteadyHorizon)
    /\ now' = RAdd(now, d)
    /\ UNCHANGED <<last_call, n_calls, controllerVars, unitVars, registryVars, threadVars>>

SteadyAcks == \E a \in AckNums : SteadyDrainAck(a)
SteadyTicks == \E d \in BBRTimeSteps : SteadyTick(d)

NextBBRSteady ==
    \/ SteadyAcks
    \/ SteadyTicks

\* The acks keep coming and the clock keeps running
SpecBBRSteady ==
    InitBBRSteady /\ [][NextBBRSteady]_vars /\ WF_vars(SteadyAcks) /\ WF_vars(SteadyTicks)

\* ------------------------------------------------------------ the registry
\* ClientConnection(client_id) built at time t
ClientConnection(t) ==
    [connected_at |-> t, last_activity |-> t,
     tcp_controller |-> NewController("reno", t)]

update_activity(cl, t) == [cl EXCEPT !.last_activity = t]

\* The default of is_active's timeout parameter; no caller passes another
DefaultTimeout == <<300, 1>>

is_active(cl, t) == RLt(RSub(t, cl.last_activity), DefaultTimeout)

\* What random gives simulate_network_activity: the sample, the ack number and
\* whether the 5% loss is drawn
SimSamples ==
    {[rtt |-> Num(150), bandwidth |-> Num(500000)],
     [rtt |-> Num(20), bandwidth |-> Num(8000000)]}
Draws == [sample : SimSamples, ack_num : AckNums, loss : BOOLEAN]

simulate_network_activity(cl, draw, t) ==
    LET lost == IF draw.loss THEN on_loss_detected(cl.tcp_controller, t)
                ELSE cl.tcp_controller
    IN [cl EXCEPT !.tcp_controller =
            on_ack_received(lost, draw.ack_num, draw.sample.rtt, draw.sample.bandwidth, t)]

register_client(cs, id, t) == (id :> ClientConnection(t)) @@ cs

\* A variant of get_client that hands the client out without touching it
get_client_no_refresh(cs, id, t) == cs

\* The registry after get_client(id); the call returns the client or None
get_client(cs, id, t) ==
    IF id \in DOMAIN cs THEN [cs EXCEPT ![id] = update_activity(@, t)] ELSE cs

\* What get_client(id) returns: the client, refreshed, or None
get_client_result(cs, id, t) == IF id \in DOMAIN cs THEN get_client(cs, id, t)[id] ELSE None

\* A variant of remove_client that empties the registry
remove_client_all(cs, id) == IF id \in DOMAIN cs THEN <<>> ELSE cs

remove_client(cs, id) == [i \in DOMAIN cs \ {id} |-> cs[i]]

get_active_clients(cs, t) == {i \in DOMAIN cs : is_active(cs[i], t)}

\* The ids cleanup_inactive_clients deletes; it returns how many they are
inactive_clients(cs, t) == {i \in DOMAIN cs : ~is_active(cs[i], t)}
cleanup_inactive_clients(cs, t) == [i \in DOMAIN cs \ inactive_clients(cs, t) |-> cs[i]]

ClientIds == 1..MaxClients
RegistryTimeSteps == {<<1, 1>>, <<299, 1>>}

\* History of one client: the time of its latest feed (its registration, before
\* the first feed) and whether every feed so far, and the present moment, came
\* within DefaultTimeout of the one before
Opened(t) == [last_fed |-> t, in_time |-> TRUE, feeds |-> 0]
Fed(h, t) ==
    [last_fed |-> t,
     in_time |-> h.in_time /\ RLe(RSub(t, h.last_fed), DefaultTimeout),
     feeds |-> h.feeds + 1]
FedInTime(h, t) == h.in_time /\ RLe(RSub(t, h.last_fed), DefaultTimeout)
Keep(f, cs) == [i \in DOMAIN cs |-> f[i]]
SimFits(cl) == AckFits(cl.tcp_controller) /\ LossFits(cl.tcp_controller)

InitRegistry ==
    /\ now = StartTime
    /\ n_calls = 0
    /\ last_call = Call("init", 0, None)
    /\ IdleUnit
    /\ IdleController
    /\ IdleRegistry
    /\ IdleThreads

RegistryStep(op, id) ==
    /\ n_calls < MaxRegistrySteps
    /\ n_calls' = n_calls + 1
    /\ last_call' = Call(op, 0, id)
    /\ UNCHANGED <<controllerVars, unitVars, threadVars>>

\* POST /api/connect: register_client()
Connect ==
    /\ next_id <= MaxClients
    /\ RegistryStep("connect", next_id)
    /\ clients' = register_client(clients, next_id, now)
    /\ fed' = (next_id :> Opened(now)) @@ fed
    /\ returned' = next_id
    /\ next_id' = next_id + 1
    /\ UNCHANGED <<now, streaming>>

\* POST /api/disconnect: remove_client(client_id)
Disconnect(id) ==
    /\ RegistryStep("disconnect", id)
    /\ clients' = remove_client(clients, id)
    /\ fed' = Keep(fed, clients')
    /\ returned' = None
    /\ UNCHANGED <<now, next_id, streaming>>

\* start_download: get_client(client_id); for an unknown id the handler goes on
\* to register_client(is_demo=False), which raises TypeError before it changes
\* anything, and the handler answers 500
StartDownload(id) ==
    /\ RegistryStep("start_download", id)
    /\ clients' = get_client(clients, id, now)
    /\ returned' = get_client_result(clients, id, now)
    /\ UNCHANGED <<now, next_id, fed, streaming>>

\* stream_download: get_client(session.client_id), then the generator is handed
\* to the server with the client object in hand
StreamDownload(id) ==
    /\ RegistryStep("stream_download", id)
    /\ clients' = get_client(clients, id, now)
    /\ streaming' = IF id \in DOMAIN clients THEN streaming \cup {id} ELSE streaming
    /\ returned' = get_client_result(clients, id, now)
    /\ UNCHANGED <<now, next_id, fed>>

\* One chunk of generate_with_metrics: update_activity() and
\* simulate_network_activity() on the client object in hand; when the registry
\* has dropped the client meanwhile the object is no longer reachable from it
StreamChunk(id, draw) ==
    /\ id \in streaming
    /\ id \in DOMAIN clients => SimFits(clients[id])
    /\ RegistryStep("stream_chunk", id)
    /\ IF id \in DOMAIN clients
       THEN /\ clients' = [clients EXCEPT ![id] =
                    simulate_network_activity(update_activity(@, now), draw, now)]
            /\ fed' = [fed EXCEPT ![id] = Fed(@, now)]
       ELSE UNCHANGED <<clients, fed>>
    /\ returned' = None
    /\ UNCHANGED <<now, next_id, streaming>>

\* cleanup_inactive_clients(), run by the cleanup thread of the manager and by
\* cleanup_task
Sweep ==
    /\ RegistryStep("sweep", 0)
    /\ clients' = cleanup_inactive_clients(clients, now)
    /\ fed' = Keep(fed, clients')
    /\ returned' = Cardinality(inactive_clients(clients, now))
    /\ UNCHANGED <<now, next_id, streaming>>

\* generate_sample_metrics, one pass of its first loop: with fewer than 3 active
\* clients it registers one and fetches it with get_client
SamplerRegister ==
    /\ next_id <= MaxClients
    /\ Cardinality(get_active_clients(clients, now)) < 3
    /\ RegistryStep("sampler_register", next_id)
    /\ clients' = get_client(register_client(clients, next_id, now), next_id, now)
    /\ fed' = (next_id :> Opened(now)) @@ fed
    /\ returned' = next_id
    /\ next_id' = next_id + 1
    /\ UNCHANGED <<now, streaming>>

\* generate_sample_metrics, one pass of its second loop: a client that
\* get_active_clients() returned gets simulate_network_activity() and is read
\* with get_performance_metrics()
SamplerFeed(id, draw) ==
    /\ id \in get_active_clients(clients, now)
    /\ SimFits(clients[id])
    /\ RegistryStep("sampler_feed", id)
    /\ clients' = [clients EXCEPT ![id] = simulate_network_activity(@, draw, now)]
    /\ fed' = [fed EXCEPT ![id] = Fed(@, now)]
    /\ returned' = None
    /\ UNCHANGED <<now, next_id, streaming>>

\* The clock advances between two calls
RegistryTick(d) ==
    /\ RegistryStep("tick", 0)
    /\ now' = RAdd(now, d)
    /\ UNCHANGED registryVars

NextRegistry ==
    \/ Connect
    \/ \E id \in ClientIds : Disconnect(id)
    \/ \E id \in ClientIds : StartDownload(id)
    \/ \E id \in ClientIds : StreamDownload(id)
    \/ \E id \in ClientIds, draw \in Draws : StreamChunk(id, draw)
    \/ Sweep
    \/ SamplerRegister
    \/ \E id \in ClientIds, draw \in Draws : SamplerFeed(id, draw)
    \/ \E d \in RegistryTimeSteps : RegistryTick(d)

SpecRegistry == InitRegistry /\ [][NextRegistry]_vars

\* ------------------------------------------------------- the server's threads
\* The registry and its client objects under the threads that share them.  A
\* method of ConnectionManager is two or three steps: entering `with self.lock`,
\* and the body, which ends by leaving the block.  A feed is not under any lock.
\* The interpreter hands over between threads at a call, so a feed of a Reno
\* controller in slow start is two steps: up to the call of the algorithm's
\* on_ack_received, made on the algorithm object the controller has at that
\* moment, and from the body of that call to the end of the feed.

\* threading.Lock: `with self.lock` is entered only while no thread holds the lock
can_acquire_unlocked(l) == TRUE

can_acquire(l) == l = None

\* The client object with this id: the registry's, or the one deleted from it
Object(id) == IF id \in DOMAIN clients THEN clients[id] ELSE detached[id]

\* ids whose client object exists
Objects == DOMAIN clients \cup DOMAIN detached

SetObject(id, cl) ==
    IF id \in DOMAIN clients
    THEN clients' = [clients EXCEPT ![id] = cl] /\ UNCHANGED detached
    ELSE detached' = [detached EXCEPT ![id] = cl] /\ UNCHANGED clients

\* The objects `del self.clients[cid]` takes out of the registry stay alive for
\* the threads that hold them
Detach(ids) == [i \in (ids \cap DOMAIN clients) \cup DOMAIN detached |->
                   IF i \in DOMAIN clients THEN clients[i] ELSE detached[i]]

SessionIds == 1..MaxSessions

\* What random gives one feed made by a thread
ThreadDraws ==
    {[sample |-> [rtt |-> Num(20), bandwidth |-> Num(8000000)], ack_num |-> 1, loss |-> l] :
        l \in BOOLEAN}

InitThreads ==
    /\ now = StartTime
    /\ n_calls = 0
    /\ last_call = Call("init", 0, None)
    /\ IdleUnit
    /\ IdleController
    /\ IdleRegistry
    /\ IdleThreads

ThreadStep(t, label) ==
    /\ pc' = [pc EXCEPT ![t] = label]
    /\ UNCHANGED <<last_call, n_calls, returned, controllerVars, unitVars, fed, streaming>>

\* `with self.lock:` of the method that the thread calls with these locals
Acquire(t, method, locals) ==
    /\ can_acquire(lock)
    /\ lock' = t
    /\ held' = [held EXCEPT ![t] = [locals EXCEPT !.seen = DOMAIN clients]]
    /\ ThreadStep(t, method)
    /\ UNCHANGED <<now, clients, next_id, detached, feed_log, swept>>

\* The end of the `with self.lock:` block, the method returning with these locals
Release(t, locals) ==
    /\ lock' = None
    /\ held' = [held EXCEPT ![t] = [locals EXCEPT !.seen = {}]]

\* cleanup_inactive_clients(), called by the loop of a cleanup thread
SweepEnter(t) ==
    /\ pc[t] = "idle"
    /\ Acquire(t, "sweep_scan", held[t])

\* inactive_clients = [cid for cid, client in self.clients.items() if not client.is_active()]
SweepScan(t) ==
    /\ pc[t] = "sweep_scan"
    /\ held' = [held EXCEPT ![t].batch = inactive_clients(clients, now)]
    /\ ThreadStep(t, "sweep_delete")
    /\ UNCHANGED <<now, clients, next_id, lock, detached, feed_log, swept>>

\* for cid in inactive_clients: del self.clients[cid]; return len(inactive_clients)
SweepDelete(t) ==
    /\ pc[t] = "sweep_delete"
    /\ clients' = [i \in DOMAIN clients \ held[t].batch |-> clients[i]]
    /\ detached' = Detach(held[t].batch)
    /\ swept' = [i \in DOMAIN swept \cup held[t].batch |->
                    (IF i \in DOMAIN swept THEN swept[i] ELSE <<>>)
                    \o (IF i \in held[t].batch THEN <<t>> ELSE <<>>)]
    /\ Release(t, [held[t] EXCEPT !.batch = {}])
    /\ ThreadStep(t, "idle")
    /\ UNCHANGED <<now, next_id, feed_log>>

\* generate_sample_metrics, line 130: active_clients = get_active_clients()
SamplerCountEnter ==
    /\ pc["sampler"] = "idle"
    /\ Acquire("sampler", "count", held["sampler"])

SamplerCount ==
    /\ pc["sampler"] = "count"
    /\ LET n == Cardinality(get_active_clients(clients, now))
       IN Release("sampler", [held["sampler"] EXCEPT !.missing = IF n < 3 THEN 3 - n ELSE 0])
    /\ ThreadStep("sampler", "topup")
    /\ UNCHANGED <<now, clients, next_id, detached, feed_log, swept>>

\* for i in range(3 - len(active_clients)): register_client()
SamplerRegisterEnter ==
    /\ pc["sampler"] = "topup"
    /\ held["sampler"].missing > 0
    /\ next_id <= MaxSessions
    /\ Acquire("sampler", "register", held["sampler"])

SamplerRegisterBody ==
    /\ pc["sampler"] = "register"
    /\ clients' = register_client(clients, next_id, now)
    /\ feed_log' = (next_id :> <<>>) @@ feed_log
    /\ Release("sampler", [held["sampler"] EXCEPT !.client = next_id])
    /\ next_id' = next_id + 1
    /\ ThreadStep("sampler", "fetch")
    /\ UNCHANGED <<now, detached, swept>>

\* client = connection_manager.get_client(sample_client_id)
SamplerGetEnter ==
    /\ pc["sampler"] = "fetch"
    /\ Acquire("sampler", "get", held["sampler"])

SamplerGet ==
    /\ pc["sampler"] = "get"
    /\ clients' = get_client(clients, held["sampler"].client, now)
    /\ Release("sampler", [held["sampler"] EXCEPT !.missing = @ - 1, !.client = None])
    /\ ThreadStep("sampler", "topup")
    /\ UNCHANGED <<now, next_id, detached, feed_log, swept>>

\* line 142: for client_id, client in connection_manager.get_active_clients().items()
SamplerIterateEnter ==
    /\ pc["sampler"] = "topup"
    /\ held["sampler"].missing = 0 \/ next_id > MaxSessions
    /\ Acquire("sampler", "iterate", held["sampler"])

SamplerIterate ==
    /\ pc["sampler"] = "iterate"
    /\ Release("sampler", [held["sampler"] EXCEPT !.batch = get_active_clients(clients, now),
                                                  !.missing = 0])
    /\ ThreadStep("sampler", "batch")
    /\ UNCHANGED <<now, clients, next_id, detached, feed_log, swept>>

\* The loop over the clients that get_active_clients() returned has ended
SamplerRoundEnd ==
    /\ pc["sampler"] = "batch"
    /\ held["sampler"].batch = {}
    /\ ThreadStep("sampler", "idle")
    /\ UNCHANGED <<now, clients, next_id, lock, held, detached, feed_log, swept>>

\* stream_download: client = connection_manager.get_client(session.client_id)
WorkerGetEnter(id) ==
    /\ pc["worker"] = "idle"
    /\ Acquire("worker", "get", [held["worker"] EXCEPT !.client = id])

\* With no client the generator streams the file and feeds nothing
WorkerGet ==
    /\ pc["worker"] = "get"
    /\ clients' = get_client(clients, held["worker"].client, now)
    /\ Release("worker", held["worker"])
    /\ ThreadStep("worker", IF held["worker"].client \in DOMAIN clients THEN "streaming" ELSE "done")
    /\ UNCHANGED <<now, next_id, detached, feed_log, swept>>

\* The file is exhausted: the generator ends
WorkerEnd ==
    /\ pc["worker"] = "streaming"
    /\ ThreadStep("worker", "done")
    /\ UNCHANGED <<now, clients, next_id, lock, held, detached, feed_log, swept>>

\* The thread is about to feed the client object id: the sampler one of its
\* batch, the generator the client it fetched, for one more chunk
AboutToFeed(t, id) ==
    /\ \/ t = "sampler" /\ pc[t] = "batch" /\ id \in held[t].batch
       \/ t = "worker" /\ pc[t] = "streaming" /\ id = held[t].client
    /\ Len(feed_log[id]) + Cardinality({u \in Threads : pc[u] = "store" /\ held[u].client = id})
          < MaxFeeds

\* The generator calls client.update_activity() before each feed; the sampler
\* does not
Touched(t, cl) == IF t = "worker" THEN update_activity(cl, now) ELSE cl

\* The locals of the thread when its feed of id is over
AfterFeed(t, id) ==
    IF t = "sampler"
    THEN [held[t] EXCEPT !.batch = @ \ {id}, !.client = None, !.draw = None]
    ELSE [held[t] EXCEPT !.draw = None]

AfterFeedLabel(t) == IF t = "sampler" THEN "batch" ELSE "streaming"

\* The active algorithm is a RenoAlgorithm in slow start
RenoSlowStart(k) ==
    /\ k.algorithm_type = "reno"
    /\ k.algorithm.state = "slow_start"
    /\ k.algorithm.duplicate_acks < 3

\* simulate_network_activity() up to the call self.algorithm.on_ack_received(ack_num)
\* in the controller's on_ack_received: the thread has the controller's
\* RenoAlgorithm object in hand
FeedBegin(t, id, draw) ==
    /\ AboutToFeed(t, id)
    /\ RenoSlowStart(Object(id).tcp_controller)
    /\ LET cl == Touched(t, Object(id))
           lost == IF draw.loss THEN on_loss_detected(cl.tcp_controller, now)
                   ELSE cl.tcp_controller
       IN /\ SetObject(id, [cl EXCEPT !.tcp_controller = lost])
          /\ held' = [held EXCEPT ![t].client = id, ![t].draw = draw]
    /\ ThreadStep(t, "store")
    /\ UNCHANGED <<now, next_id, lock, feed_log, swept>>

\* The body of RenoAlgorithm.on_ack_received on the object in hand, and the rest
\* of the feed.  When another thread has switched the controller meanwhile, the
\* object in hand is one the controller no longer uses, and the ack is not seen
\* in the controller's window.
FeedEnd(t) ==
    /\ pc[t] = "store"
    /\ LET id == held[t].client
           draw == held[t].draw
           cl == Object(id)
           k == cl.tcp_controller
           acked == IF k.algorithm_type = "reno"
                    THEN [k EXCEPT !.algorithm = RenoOnAck(@, draw.ack_num)]
                    ELSE k
           done == IF Truthy(draw.sample.rtt) /\ Truthy(draw.sample.bandwidth)
                   THEN adaptive_algorithm_switch(acked, draw.sample.rtt,
                                                  draw.sample.bandwidth, now)
                   ELSE acked
       IN /\ SetObject(id, [cl EXCEPT !.tcp_controller = done])
          /\ feed_log' = [feed_log EXCEPT ![id] = Append(@, [draw |-> draw, t |-> now])]
          /\ held' = [held EXCEPT ![t] = AfterFeed(t, id)]
    /\ ThreadStep(t, AfterFeedLabel(t))
    /\ UNCHANGED <<now, next_id, lock, swept>>

\* simulate_network_activity() as one step
FeedAtOnce(t, id, draw) ==
    /\ AboutToFeed(t, id)
    /\ SimFits(Object(id))
    /\ SetObject(id, simulate_network_activity(Touched(t, Object(id)), draw, now))
    /\ feed_log' = [feed_log EXCEPT ![id] = Append(@, [draw |-> draw, t |-> now])]
    /\ held' = [held EXCEPT ![t] = AfterFeed(t, id)]
    /\ ThreadStep(t, AfterFeedLabel(t))
    /\ UNCHANGED <<now, next_id, lock, swept>>

\* simulate_network_activity() on a controller in any state but Reno's slow start
FeedWhole(t, id, draw) ==
    /\ AboutToFeed(t, id)
    /\ ~RenoSlowStart(Object(id).tcp_controller)
    /\ FeedAtOnce(t, id, draw)

\* POST /api/disconnect: remove_client(client_id)
DisconnectEnter(id) ==
    /\ pc["handler"] = "idle"
    /\ Acquire("handler", "remove", [held["handler"] EXCEPT !.client = id])

DisconnectBody ==
    /\ pc["handler"] = "remove"
    /\ clients' = remove_client(clients, held["handler"].client)
    /\ detached' = Detach({held["handler"].client})
    /\ Release("handler", [held["handler"] EXCEPT !.client = None])
    /\ ThreadStep("handler", "idle")
    /\ UNCHANGED <<now, next_id, feed_log, swept>>

\* The clock passes the inactivity timeout
ThreadTick ==
    /\ RLt(now, RAdd(StartTime, RMul(Num(MaxThreadTicks), DefaultTimeout)))
    /\ now' = RAdd(now, DefaultTimeout)
    /\ UNCHANGED <<last_call, n_calls, controllerVars, unitVars, registryVars, threadVars>>

NextThreads ==
    \/ \E t \in Sweepers : SweepEnter(t)
    \/ \E t \in Sweepers : SweepScan(t)
    \/ \E t \in Sweepers : SweepDelete(t)
    \/ SamplerCountEnter
    \/ SamplerCount
    \/ SamplerRegisterEnter
    \/ SamplerRegisterBody
    \/ SamplerGetEnter
    \/ SamplerGet
    \/ SamplerIterateEnter
    \/ SamplerIterate
    \/ SamplerRoundEnd
    \/ \E id \in SessionIds : WorkerGetEnter(id)
    \/ WorkerGet
    \/ WorkerEnd
    \/ \E t \in {"sampler", "worker"}, id \in SessionIds, draw \in ThreadDraws :
          FeedBegin(t, id, draw)
    \/ \E t \in {"sampler", "worker"} : FeedEnd(t)
    \/ \E t \in {"sampler", "worker"}, id \in SessionIds, draw \in ThreadDraws :
          FeedWhole(t, id, draw)
    \/ \E id \in SessionIds : DisconnectEnter(id)
    \/ DisconnectBody
    \/ ThreadTick

SpecThreads == InitThreads /\ [][NextThreads]_vars

\* The threads that call the five methods of the registry between them, without
\* the download, and with every feed taken as one step: a feed touches no
\* variable of the registry
NextLocks ==
    \/ \E t \in Sweepers : SweepEnter(t)
    \/ \E t \in Sweepers : SweepScan(t)
    \/ \E t \in Sweepers : SweepDelete(t)
    \/ SamplerCountEnter
    \/ SamplerCount
    \/ SamplerRegisterEnter
    \/ SamplerRegisterBody
    \/ SamplerGetEnter
    \/ SamplerGet
    \/ SamplerIterateEnter
    \/ SamplerIterate
    \/ SamplerRoundEnd
    \/ \E id \in SessionIds, draw \in {d \in ThreadDraws : ~d.loss} :
          FeedAtOnce("sampler", id, draw)
    \/ \E id \in SessionIds : DisconnectEnter(id)
    \/ DisconnectBody
    \/ ThreadTick

SpecLocks == InitThreads /\ [][NextLocks]_vars

SwitchCount(k) ==
    k.algorithm_performance["reno"].switches + k.algorithm_performance["cubic"].switches
    + k.algorithm_performance["tahoe"].switches + k.algorithm_performance["bbr"].switches

WindowKinds == {"tahoe", "reno", "cubic"}

\* ------------------------------------------------------------ claims
\* C1. Switch continuity: at every hot-swap, manual or automatic, from A to
\* another algorithm B, B is active right after the swap with the cwnd and the
\* ssthresh A had when the swap began (for an automatic swap: A's values after
\* A processed the ack that triggered it).
C1_SwitchContinuity ==
    [][ctl'.algorithm_type # ctl.algorithm_type =>
         LET outgoing ==
                 IF last_call'.op = "ack"
                 THEN AlgorithmOnAck(ctl, last_call'.ack_num,
                                     ctl'.rtt_history[Len(ctl'.rtt_history)],
                                     ctl'.bandwidth_history[Len(ctl'.bandwidth_history)],
                                     now)
                 ELSE ctl.algorithm
         IN /\ ctl'.algorithm.cwnd = outgoing.cwnd
            /\ ctl'.algorithm.ssthresh = outgoing.ssthresh
            /\ last_call'.op = "switch" => ctl'.algorithm_type = last_call'.target
            /\ ctl'.algorithm.state = _initialize_algorithm(ctl'.algorithm_type).state]_vars

\* An automatic swap into BBR has just carried over a window that is not BBR's own
C1_Witness ==
    /\ last_call.op = "ack"
    /\ ctl.algorithm_type = "bbr"
    /\ ctl.last_switch_time = now
    /\ RGt(now, StartTime)
    /\ ctl.algorithm.cwnd # BBRInit.cwnd
    /\ ctl.algorithm.state = "STARTUP"

C3_BBRFloor ==
    (ctl.algorithm_type = "bbr" /\ last_call.op = "ack") => RGe(ctl.algorithm.cwnd, Num(4))

\* C4. Window floors: while Tahoe, Reno or Cubic is active, cwnd >= 1 and
\* ssthresh >= 2.
C4_WindowFloors ==
    ctl.algorithm_type \in WindowKinds =>
        RGe(ctl.algorithm.cwnd, One) /\ RGe(ctl.algorithm.ssthresh, Num(2))

\* C5. Tahoe timeout: a loss delivered while Tahoe is active, from a window c in
\* any phase, leaves ssthresh = max(c/2, 2), cwnd = 1 and phase slow_start.
C5_TahoeTimeout ==
    [][(last_call'.op = "loss" /\ ctl.algorithm_type = "tahoe") =>
         /\ ctl'.algorithm.ssthresh =
               (IF RGt(RMul(ctl.algorithm.cwnd, <<1, 2>>), Num(2))
                THEN RMul(ctl.algorithm.cwnd, <<1, 2>>) ELSE Num(2))
         /\ ctl'.algorithm.cwnd = One
         /\ ctl'.algorithm.state = "slow_start"]_vars

\* A timeout has just halved a window above 4
C5_Witness ==
    /\ last_call.op = "loss"
    /\ ctl.algorithm_type = "tahoe"
    /\ ctl.algorithm.state = "slow_start"
    /\ ctl.algorithm.cwnd = One
    /\ RGt(ctl.algorithm.ssthresh, Num(2))

\* C6. Reno fast-recovery entry: once Reno has received three or more duplicate
\* acks in a row it is in fast_recovery (entered on the third, kept by the
\* later duplicates, whose number is not above recover).
C6_RenoFastRecoveryEntry ==
    (ctl.algorithm_type = "reno" /\ dup_run.count >= 3) =>
        ctl.algorithm.state = "fast_recovery"

\* C7. Reno fast-recovery progress and exit: an ack that reaches Reno in
\* fast_recovery with ack_num <= recover adds exactly 1 to cwnd and keeps the
\* phase; an ack with ack_num > recover sets cwnd = ssthresh and the phase to
\* congestion_avoidance; ssthresh is the same after either ack.
C7_RenoFastRecoveryProgress ==
    [][(last_call'.op = "reno_ack" /\ reno.state = "fast_recovery") =>
         /\ reno'.ssthresh = reno.ssthresh
         /\ IF last_call'.ack_num <= reno.recover
            THEN reno'.cwnd = RAdd(reno.cwnd, One) /\ reno'.state = "fast_recovery"
            ELSE reno'.cwnd = reno.ssthresh /\ reno'.state = "congestion_avoidance"]_vars

\* Fast recovery entered at ack 1 has just been left by ack 2
C7_Witness ==
    /\ last_call.op = "reno_ack"
    /\ last_call.ack_num > reno.recover
    /\ reno.recover = 1
    /\ reno.state = "congestion_avoidance"
    /\ reno.cwnd = reno.ssthresh

\* C8. Cubic loss: a loss delivered while Cubic is active, from a window c,
\* leaves wmax = c, cwnd = 0.7 * c, ssthresh = the new cwnd and phase
\* congestion_avoidance.
C8_CubicLoss ==
    [][(last_call'.op = "loss" /\ ctl.algorithm_type = "cubic") =>
         /\ ctl'.algorithm.wmax = ctl.algorithm.cwnd
         /\ ctl'.algorithm.cwnd = RMul(<<7, 10>>, ctl.algorithm.cwnd)
         /\ ctl'.algorithm.ssthresh = ctl'.algorithm.cwnd
         /\ ctl'.algorithm.state = "congestion_avoidance"]_vars

\* A loss has just cut a Cubic window of 5 to 3.5
C8_Witness ==
    /\ last_call.op = "loss"
    /\ ctl.algorithm_type = "cubic"
    /\ ctl.algorithm.wmax = Num(5)
    /\ ctl.algorithm.cwnd = <<7, 2>>

\* C9. Eviction sweep: a sweep removes exactly the sessions with
\* now - last_activity > 300 and keeps one idle for exactly 300 s or less, returns
\* the number it removed, and a sweep right after a sweep returns 0.
C9_SweepRemovesOlderOnly ==
    [][last_call'.op = "sweep" =>
         /\ DOMAIN clients' =
               {i \in DOMAIN clients :
                   ~RGt(RSub(now, clients[i].last_activity), DefaultTimeout)}
         /\ returned' = Cardinality(DOMAIN clients \ DOMAIN clients')
         /\ last_call.op = "sweep" => returned' = 0]_vars

\* C10. A session fed at least once in every 300 s has last_activity set to the
\* time of each feed, and no sweep removes it.
C10_FedSessionStays ==
    [][/\ (last_call'.op \in {"sampler_feed", "stream_chunk"}
           /\ last_call'.target \in DOMAIN clients')
          => clients'[last_call'.target].last_activity = now
       /\ last_call'.op = "sweep"
          => \A i \in DOMAIN clients :
                (fed[i].feeds > 0 /\ FedInTime(fed[i], now)) => i \in DOMAIN clients']_vars

\* C14. get(id) on a present session sets its last_activity to the current time,
\* changes nothing else and returns that session; on an absent id it returns
\* None and leaves the registry as it was.
C14_GetRefreshesOrNotFound ==
    [][last_call'.op \in {"start_download", "stream_download"} =>
         LET id == last_call'.target
         IN IF id \in DOMAIN clients
            THEN /\ clients' = [clients EXCEPT ![id].last_activity = now]
                 /\ returned' = clients'[id]
            ELSE /\ clients' = clients
                 /\ returned' = None]_vars

\* A lookup has just refreshed one client while an older one kept its time
C14_Witness ==
    /\ last_call.op = "start_download"
    /\ last_call.target \in DOMAIN clients
    /\ returned = clients[last_call.target]
    /\ clients[last_call.target].last_activity = now
    /\ RGt(now, clients[last_call.target].connected_at)
    /\ \E i \in DOMAIN clients : RLt(clients[i].last_activity, now)

\* C15. close_session(id) removes the session id and no other, is a no-op when
\* id is absent, has the same effect twice as once, and leaves id not found by
\* any later get.
C15_CloseRemovesOne ==
    [][last_call'.op = "disconnect" =>
         LET id == last_call'.target
         IN /\ DOMAIN clients' = DOMAIN clients \ {id}
            /\ \A i \in DOMAIN clients' : clients'[i] = clients[i]
            /\ id \notin DOMAIN clients => clients' = clients
            /\ remove_client(clients', id) = clients'
            /\ get_client_result(clients', id, now) = None
            /\ get_client(clients', id, now) = clients']_vars

\* A disconnect has just removed one of two clients
C15_Witness ==
    /\ last_call.op = "disconnect"
    /\ next_id = 3
    /\ Cardinality(DOMAIN clients) = 1
    /\ last_call.target \notin DOMAIN clients

\* C18. Switch policy: should_switch(target) is true exactly when target is not
\* the active algorithm and at least 10 seconds have passed since
\* last_switch_time, whatever the recorded performance scores are.
C18_SwitchPolicy ==
    \A target \in AlgorithmType :
        should_switch_algorithm(ctl, target, now) =
            (target # ctl.algorithm_type
             /\ RGe(RSub(now, ctl.last_switch_time), switch_cooldown))

\* The policy has just let an ack switch to an algorithm whose recorded score is
\* 0 while the algorithm it left holds a score of at least 0.5
C18_Witness ==
    /\ last_call.op = "ack"
    /\ ctl.last_switch_time = now
    /\ RGt(now, StartTime)
    /\ SwitchCount(ctl) = 1
    /\ ctl.algorithm_performance[ctl.algorithm_type].performance_score = Zero
    /\ \E k \in AlgorithmType :
          RGe(ctl.algorithm_performance[k].performance_score, <<1, 2>>)

\* C16. manual_switch with a value that is not one of the four kinds changes
\* no controller state: the active algorithm and its window, last_switch_time
\* and every performance record are as before the call.
C16_InvalidKindNoChange ==
    [][(last_call'.op = "switch" /\ last_call'.target \in InvalidKinds) => ctl' = ctl]_vars

\* C17. An ack whose rtt sample is zero or negative is not appended to the RTT
\* history and leaves min_rtt and its timestamp as they were when BBR is active.
C17_NonPositiveRttIgnored ==
    [][(/\ last_call'.op = "ack"
        /\ last_call'.target.rtt # None
        /\ RLe(last_call'.target.rtt, Zero)) =>
         /\ ctl'.rtt_history = ctl.rtt_history
         /\ ctl.algorithm_type = "bbr" =>
               /\ ctl'.algorithm.min_rtt = ctl.algorithm.min_rtt
               /\ ctl'.algorithm.rtprop_stamp = ctl.algorithm.rtprop_stamp]_vars

\* The mean of the last n elements of s, or of all of s when it is shorter
AverageOfLast(s, n) ==
    LET m == IF Len(s) < n THEN Len(s) ELSE n
    IN RDiv(SumSeq(SubSeq(s, Len(s) - m + 1, Len(s))), Num(m))

\* C19. Classifier decision order: with at least 5 RTT samples the classifier
\* returns lossy if loss_rate > 0.02; else high_bw if avg_rtt > 100 and
\* avg_bandwidth > the high-bandwidth threshold; else congested if avg_rtt > 100;
\* else excellent if avg_rtt < 20 and loss_rate < 0.001; else good, with avg_rtt
\* over the last 10 RTT samples and avg_bandwidth over the last 5 bandwidth
\* samples.
C19_ClassifierOrder ==
    (last_call.op = "classify" /\ Len(ctl.rtt_history) >= 5) =>
        LET loss_rate == IF ctl.packets_sent = 0 THEN Zero
                         ELSE Rat(ctl.packets_lost, ctl.packets_sent)
            avg_rtt == AverageOfLast(ctl.rtt_history, 10)
            avg_bandwidth == AverageOfLast(ctl.bandwidth_history, 5)
        IN returned =
             (IF RGt(loss_rate, <<2, 100>>) THEN "lossy"
              ELSE IF RGt(avg_rtt, Num(100)) /\ RGt(avg_bandwidth, bandwidth_threshold_high)
              THEN "high_bw"
              ELSE IF RGt(avg_rtt, Num(100)) THEN "congested"
              ELSE IF RLt(avg_rtt, Num(20)) /\ RLt(loss_rate, <<1, 1000>>) THEN "excellent"
              ELSE "good")

\* The classifier has just answered lossy for a history of more than 10 samples
\* whose recent RTT and bandwidth are both above their thresholds
C19_Witness ==
    /\ last_call.op = "classify"
    /\ returned = "lossy"
    /\ Len(ctl.rtt_history) > 10
    /\ RGt(AverageOfLast(ctl.rtt_history, 10), Num(100))
    /\ RGt(AverageOfLast(ctl.bandwidth_history, 5), bandwidth_threshold_high)

CriticalLabels == {"sweep_scan", "sweep_delete", "count", "register", "get", "iterate", "remove"}
InCritical(t) == pc[t] \in CriticalLabels

\* The feeds of a log, one after the other, on a client object
RECURSIVE Replay(_, _)
Replay(cl, log) ==
    IF log = <<>> THEN cl
    ELSE Replay(simulate_network_activity(cl, Head(log).draw, Head(log).t), Tail(log))

\* The orders in which n feeds can follow one another
Orders(n) == {f \in [1..n -> 1..n] : \A i, j \in 1..n : i # j => f[i] # f[j]}

\* C11. Per-session serialization: the feeds of the sampler and of a download on
\* one session never interleave, so that once no feed is under way the
\* session's controller is what the completed feeds produce in some serial order.
C11_SerialOutcome ==
    \A id \in Objects :
        (\A t \in Threads : ~(pc[t] = "store" /\ held[t].client = id)) =>
            \E f \in Orders(Len(feed_log[id])) :
                Replay(ClientConnection(Object(id).connected_at),
                       [i \in 1..Len(feed_log[id]) |-> feed_log[id][f[i]]]).tcp_controller
                  = Object(id).tcp_controller

\* C12. Once close_session or a sweep has removed a session, no later step
\* changes that session's controller or its activity timestamp.
C12_RemovedSessionUntouched ==
    [][\A id \in DOMAIN detached : detached'[id] = detached[id]]_vars

\* C13. Registry mutual exclusion: open, get, close, iterate-all and sweep are
\* mutually exclusive, two sweepers included; while a thread is inside one of
\* them the set of registered ids is the one it found on entry, and every session
\* a sweep removed was counted by exactly one cleanup call.
C13_RegistryMutualExclusion ==
    /\ Cardinality({t \in Threads : InCritical(t)}) <= 1
    /\ \A t \in Threads : InCritical(t) => lock = t /\ DOMAIN clients = held[t].seen
    /\ \A t \in Sweepers : pc[t] = "sweep_delete" => held[t].batch \subseteq DOMAIN clients
    /\ \A id \in DOMAIN swept : Len(swept[id]) = 1 /\ id \notin DOMAIN clients

\* cleanup_task has removed and counted a session, and the cleanup thread of the
\* manager, inside its own call after it, has found nothing left to remove
C13_Witness ==
    /\ \E id \in DOMAIN swept : swept[id] = <<"cleanup_task">>
    /\ pc["cleanup_thread"] = "sweep_delete"
    /\ held["cleanup_thread"].batch = {}
    /\ lock = "cleanup_thread"

\* ------------------------------------------------------------ sample history
\* C21: the two sample histories always have the same length, at most 50. An
\* ack that carries a sample puts it at the end of both, and what stays in front
\* of it is the history before that ack, in its order, less the oldest entry
\* when the history was full; every other call leaves both histories as they were.
IsSample(smp) == Truthy(smp.rtt) /\ Truthy(smp.bandwidth)

\* new is old with x arrived last, bounded to the most recent HistoryLimit
ArrivedLast(old, new, x) ==
    LET m == MinInt(Len(old) + 1, HistoryLimit)
    IN /\ Len(new) = m
       /\ new[m] = x
       /\ \A i \in 1..(m - 1) : new[i] = old[Len(old) + 1 - m + i]

C21_HistoryBoundedFifo ==
    [][/\ Len(ctl'.rtt_history) = Len(ctl'.bandwidth_history)
       /\ Len(ctl'.rtt_history) <= 50
       /\ IF last_call'.op = "ack" /\ IsSample(last_call'.target)
          THEN /\ ArrivedLast(ctl.rtt_history, ctl'.rtt_history, last_call'.target.rtt)
               /\ ArrivedLast(ctl.bandwidth_history, ctl'.bandwidth_history,
                              last_call'.target.bandwidth)
          ELSE /\ ctl'.rtt_history = ctl.rtt_history
               /\ ctl'.bandwidth_history = ctl.bandwidth_history]_vars

\* a full history has just lost its oldest sample to one that differs from it
C21_Witness ==
    /\ last_call.op = "ack"
    /\ IsSample(last_call.target)
    /\ Len(ctl.rtt_history) = 50
    /\ n_calls >= 2
    /\ ctl.rtt_history[50] # ctl.rtt_history[49]
    /\ ctl.rtt_history[1] = ctl.rtt_history[49]

\* ------------------------------------------------------------ loss accounting
\* C22: a loss fed to the controller adds exactly 1 to packets_lost and hands the
\* loss to the active algorithm (Tahoe: window back to 1 in slow_start with
\* ssthresh = max(cwnd/2, 2); Cubic: wmax = cwnd, window and ssthresh = 0.7 cwnd
\* in congestion_avoidance); packets_sent, both sample histories, the active
\* kind and last_switch_time are the same after it.
C22_LossAccounting ==
    [][last_call'.op = "loss" =>
         /\ ctl'.packets_lost = ctl.packets_lost + 1
         /\ ctl'.packets_sent = ctl.packets_sent
         /\ ctl'.rtt_history = ctl.rtt_history
         /\ ctl'.bandwidth_history = ctl.bandwidth_history
         /\ ctl'.algorithm_type = ctl.algorithm_type
         /\ ctl'.last_switch_time = ctl.last_switch_time
         /\ ctl.algorithm_type = "tahoe" =>
               /\ ctl'.algorithm.cwnd = One
               /\ ctl'.algorithm.state = "slow_start"
               /\ ctl'.algorithm.ssthresh = RMax(RDiv(ctl.algorithm.cwnd, Num(2)), Num(2))
         /\ ctl.algorithm_type = "cubic" =>
               /\ ctl'.algorithm.wmax = ctl.algorithm.cwnd
               /\ ctl'.algorithm.cwnd = RMul(ctl.algorithm.cwnd, <<7, 10>>)
               /\ ctl'.algorithm.ssthresh = ctl'.algorithm.cwnd
               /\ ctl'.algorithm.state = "congestion_avoidance"]_vars

\* a loss has reached a Cubic controller that had sent packets and recorded samples
C22_Witness ==
    /\ last_call.op = "loss"
    /\ ctl.algorithm_type = "cubic"
    /\ ctl.algorithm.state = "congestion_avoidance"
    /\ RGt(ctl.algorithm.wmax, One)
    /\ ctl.packets_lost = 1
    /\ ctl.packets_sent >= 1
    /\ Len(ctl.rtt_history) >= 1

\* ------------------------------------------------------------ BBR
\* C23: a loss reported to BBR leaves every field of the BBR object as it was.
C23_BBRIgnoresLoss ==
    [][last_call'.op = "bbr_loss" => bbr' = bbr]_vars

\* a loss has been reported to a BBR object that is past STARTUP, with a window
\* above the floor
C23_Witness ==
    /\ last_call.op = "bbr_loss"
    /\ bbr.state = "PROBE_BW"
    /\ RGt(bbr.cwnd, Num(4))
    /\ bbr.packet_count >= 1

\* An ack has just been handed to the BBR object, which was in the state st
AckIn(st) == last_call'.op = "bbr_ack" /\ bbr.state = st

\* The bandwidth estimate, as this ack leaves it, reaches 1.25 times the full
\* bandwidth recorded before the ack
ReachesFullBandwidth == RGe(bbr'.bw_estimate, RMul(bbr.full_bw, <<5, 4>>))

\* This ack is the third in a row whose estimate did not reach it
CompletesThreeRounds == ~ReachesFullBandwidth /\ bbr.full_bw_count + 1 = 3

\* This ack entered PROBE_RTT: the min-RTT timestamp, as the ack leaves it, is
\* more than 10 seconds old
EntersProbeRTT ==
    /\ bbr.state # "PROBE_RTT"
    /\ bbr'.state = "PROBE_RTT"
    /\ RGt(RSub(now, bbr'.rtprop_stamp), Num(10))

\* C24 as stated: an ack in STARTUP whose estimate reaches 1.25 x full_bw records
\* the estimate as full_bw and resets the count to 0; any other ack in STARTUP
\* adds 1 to the count; BBR is in DRAIN with pacing_gain 1/2.885 after an ack in
\* STARTUP exactly when that ack completed 3 such rounds in a row.
C24_StartupExit ==
    [][AckIn("STARTUP") =>
         /\ IF ReachesFullBandwidth
            THEN bbr'.full_bw = bbr'.bw_estimate /\ bbr'.full_bw_count = 0
            ELSE bbr'.full_bw = bbr.full_bw /\ bbr'.full_bw_count = bbr.full_bw_count + 1
         /\ CompletesThreeRounds <=>
               (bbr'.state = "DRAIN" /\ bbr'.pacing_gain = <<200, 577>>)]_vars

\* C24 amended: the same, except that the ack that completes the 3 rounds leaves
\* BBR in PROBE_RTT (pacing_gain 1) instead of DRAIN when it also finds the
\* min-RTT timestamp more than 10 seconds old; DRAIN is never entered earlier.
C24_StartupExitUnlessProbeRTT ==
    [][AckIn("STARTUP") =>
         /\ IF ReachesFullBandwidth
            THEN bbr'.full_bw = bbr'.bw_estimate /\ bbr'.full_bw_count = 0
            ELSE bbr'.full_bw = bbr.full_bw /\ bbr'.full_bw_count = bbr.full_bw_count + 1
         /\ CompletesThreeRounds =>
               \/ bbr'.state = "DRAIN" /\ bbr'.pacing_gain = <<200, 577>>
               \/ EntersProbeRTT /\ bbr'.pacing_gain = One
         /\ bbr'.state = "DRAIN" => CompletesThreeRounds
         /\ ~CompletesThreeRounds => (bbr'.state = "STARTUP" \/ EntersProbeRTT)]_vars

\* the third round in a row without growth has just moved BBR to DRAIN, after an
\* earlier round that had reset the count
C24_Witness ==
    /\ last_call.op = "bbr_ack"
    /\ bbr.state = "DRAIN"
    /\ bbr.full_bw_count = 3
    /\ bbr.full_bw = Num(4096000)
    /\ n_calls >= 1

\* The window held before this ack is within the bandwidth-delay product of the
\* estimates as this ack leaves them
Drained == RLe(bbr.cwnd, RMul(bbr'.bw_estimate, bbr'.min_rtt))

\* C25 as stated: after an ack in DRAIN, BBR is in PROBE_BW with cycle_index 0 and
\* pacing_gain 1.0 exactly when cwnd <= bw_estimate * min_rtt at that ack;
\* otherwise it is still in DRAIN, or has entered PROBE_RTT.
C25_DrainExit ==
    [][AckIn("DRAIN") =>
         /\ Drained <=>
               (bbr'.state = "PROBE_BW" /\ bbr'.cycle_index = 0 /\ bbr'.pacing_gain = One)
         /\ ~Drained => (bbr'.state = "DRAIN" \/ EntersProbeRTT)]_vars

\* C25 amended: an ack in DRAIN with cwnd <= bw_estimate * min_rtt leaves BBR in
\* PROBE_BW with cycle_index 0 and pacing_gain 1.0 unless the same ack enters
\* PROBE_RTT; an ack with cwnd above it leaves BBR in DRAIN unless it enters
\* PROBE_RTT; PROBE_BW is never reached from DRAIN with cwnd above it.
C25_DrainExitUnlessProbeRTT ==
    [][AckIn("DRAIN") =>
         /\ Drained =>
               \/ bbr'.state = "PROBE_BW" /\ bbr'.cycle_index = 0 /\ bbr'.pacing_gain = One
               \/ EntersProbeRTT
         /\ ~Drained => (bbr'.state = "DRAIN" \/ EntersProbeRTT)
         /\ bbr'.state = "PROBE_BW" => Drained]_vars

\* an ack has just moved BBR from DRAIN to PROBE_BW
C25_Witness ==
    /\ last_call.op = "bbr_ack"
    /\ n_calls >= 1
    /\ bbr.state = "PROBE_BW"
    /\ bbr.cycle_index = 0
    /\ bbr.pacing_gain = One
    /\ bbr.cycle_stamp = now

\* C26: a BBR object in DRAIN that keeps receiving acks with unchanged bandwidth
\* and RTT samples eventually reaches PROBE_BW.
C26_DrainEnds == (bbr.state = "DRAIN") ~> (bbr.state = "PROBE_BW")

\* The gain schedule of PROBE_BW
ProbeGains == << <<5, 4>>, <<3, 4>>, One, One, One, One, One, One >>

\* More than min_rtt seconds, min_rtt as this ack leaves it, have passed since
\* the cycle phase started; never so while min_rtt is infinite
PhaseOver == ~IsInf(bbr'.min_rtt) /\ RGt(RSub(now, bbr.cycle_stamp), bbr'.min_rtt)

\* C27 as stated: an ack in PROBE_BW moves cycle_index one step on modulo 8, sets
\* pacing_gain to the schedule entry at the new index and restarts the phase
\* exactly when more than min_rtt seconds have passed since the phase started;
\* otherwise index, gain and cycle timestamp are as before the ack.
C27_ProbeBWCycle ==
    [][AckIn("PROBE_BW") =>
         IF PhaseOver
         THEN /\ bbr'.cycle_index = (bbr.cycle_index + 1) % 8
              /\ bbr'.pacing_gain = ProbeGains[bbr'.cycle_index + 1]
              /\ bbr'.cycle_stamp = now
         ELSE /\ bbr'.cycle_index = bbr.cycle_index
              /\ bbr'.pacing_gain = bbr.pacing_gain
              /\ bbr'.cycle_stamp = bbr.cycle_stamp]_vars

\* C27 amended: index and cycle timestamp follow that rule on every ack in
\* PROBE_BW; pacing_gain follows it unless the same ack enters PROBE_RTT, which
\* sets pacing_gain to 1.0.
C27_ProbeBWCycleUnlessProbeRTT ==
    [][AckIn("PROBE_BW") =>
         /\ IF PhaseOver
            THEN /\ bbr'.cycle_index = (bbr.cycle_index + 1) % 8
                 /\ bbr'.cycle_stamp = now
            ELSE /\ bbr'.cycle_index = bbr.cycle_index
                 /\ bbr'.cycle_stamp = bbr.cycle_stamp
         /\ bbr'.pacing_gain =
               (IF EntersProbeRTT THEN One
                ELSE IF PhaseOver THEN ProbeGains[bbr'.cycle_index + 1]
                ELSE bbr.pacing_gain)]_vars

\* an ack has just moved PROBE_BW on to the second entry of the schedule
C27_Witness ==
    /\ last_call.op = "bbr_ack"
    /\ bbr.state = "PROBE_BW"
    /\ bbr.cycle_index = 1
    /\ bbr.pacing_gain = <<3, 4>>
    /\ bbr.cycle_stamp = now

\* C28: an ack that finds BBR in STARTUP, DRAIN or PROBE_BW more than 10 seconds
\* after the min-RTT timestamp was last set (by an RTT sample or by leaving
\* PROBE_RTT) leaves it in PROBE_RTT, with prior_cwnd the window held before the
\* ack and the deadline 200 ms after the time of the ack.
C28_ProbeRTTEntry ==
    [][(/\ last_call'.op = "bbr_ack"
        /\ bbr.state \in {"STARTUP", "DRAIN", "PROBE_BW"}
        /\ bbr.rtprop_stamp # BBRInit.rtprop_stamp
        /\ RGt(RSub(now, bbr.rtprop_stamp), Num(10))) =>
         /\ bbr'.state = "PROBE_RTT"
         /\ bbr'.prior_cwnd = bbr.cwnd
         /\ bbr'.probe_rtt_done_stamp = RAdd(now, <<1, 5>>)]_vars

\* C29: an ack that finds BBR in PROBE_RTT before the deadline leaves it in
\* PROBE_RTT; an ack at or after the deadline leaves it in PROBE_BW with
\* cycle_index 0 and the min-RTT timestamp set to the time of that ack; no ack
\* takes BBR from PROBE_RTT to any other state.
C29_ProbeRTTDwell ==
    [][AckIn("PROBE_RTT") =>
         IF RLt(now, bbr.probe_rtt_done_stamp)
         THEN bbr'.state = "PROBE_RTT"
         ELSE /\ bbr'.state = "PROBE_BW"
              /\ bbr'.cycle_index = 0
              /\ bbr'.rtprop_stamp = now]_vars

\* an ack exactly at the deadline has just moved BBR from PROBE_RTT to PROBE_BW
C29_Witness ==
    /\ last_call.op = "bbr_ack"
    /\ bbr.state = "PROBE_BW"
    /\ bbr.probe_rtt_done_stamp = now
    /\ bbr.rtprop_stamp = now
    /\ bbr.cycle_index = 0
    /\ RGt(bbr.prior_cwnd, Zero)

\* C30: after the ack on which BBR leaves PROBE_RTT, cwnd is at least prior_cwnd,
\* the window recorded when PROBE_RTT was entered.
C30_ProbeRTTRestore ==
    [][(AckIn("PROBE_RTT") /\ bbr'.state # "PROBE_RTT") =>
         RGe(bbr'.cwnd, bbr.prior_cwnd)]_vars

\* C31: after every ack that leaves BBR in PROBE_RTT, cwnd is exactly the floor of
\* 4 segments (checked for objects whose min_rtt has been measured, where
\* set_cwnd does assign the window).
C31_ProbeRTTWindow ==
    [][(/\ last_call'.op = "bbr_ack"
        /\ bbr'.state = "PROBE_RTT"
        /\ ~IsInf(bbr'.min_rtt)) =>
         bbr'.cwnd = Num(4)]_vars

\* The fields of the algorithm object other than the window and the threshold
InitialBut(k, alg) ==
    alg = [_initialize_algorithm(k) EXCEPT !.cwnd = alg.cwnd, !.ssthresh = alg.ssthresh]

\* C32: a hot-swap to a different kind, manual or automatic, installs the incoming
\* algorithm in its initial phase (slow_start, or STARTUP for BBR) with every
\* field other than cwnd and ssthresh at its initial value, sets
\* last_switch_time to the time of the swap, adds the time since the previous
\* switch to the outgoing kind's total_time and adds exactly 1 to the incoming
\* kind's switch count (and to no other); a switch request to the kind already
\* active changes nothing in the controller.
C32_HotSwapBookkeeping ==
    [][/\ ctl'.algorithm_type # ctl.algorithm_type =>
            LET outgoing == ctl.algorithm_type
                incoming == ctl'.algorithm_type
            IN /\ InitialBut(incoming, ctl'.algorithm)
               /\ ctl'.algorithm.state =
                      IF incoming = "bbr" THEN "STARTUP" ELSE "slow_start"
               /\ ctl'.last_switch_time = now
               /\ ctl'.algorithm_performance[outgoing].total_time =
                      RAdd(ctl.algorithm_performance[outgoing].total_time,
                           RSub(now, ctl.last_switch_time))
               /\ \A k \in AlgorithmType \ {outgoing} :
                      ctl'.algorithm_performance[k].total_time =
                          ctl.algorithm_performance[k].total_time
               /\ \A k \in AlgorithmType :
                      ctl'.algorithm_performance[k].switches =
                          ctl.algorithm_performance[k].switches
                          + (IF k = incoming THEN 1 ELSE 0)
       /\ (last_call'.op = "switch" /\ last_call'.target = ctl.algorithm_type) =>
            ctl' = ctl]_vars

\* A manual swap has just replaced an algorithm that had been active for a while
\* and had left its initial phase behind
C32_Witness ==
    /\ last_call.op = "switch"
    /\ ctl.algorithm_type = last_call.target
    /\ ctl.last_switch_time = now
    /\ RGt(now, StartTime)
    /\ ctl.algorithm_performance[ctl.algorithm_type].switches = 1
    /\ \E k \in AlgorithmType \ {ctl.algorithm_type} :
          RGt(ctl.algorithm_performance[k].total_time, Zero)
    /\ RGt(ctl.algorithm.cwnd, _initialize_algorithm(ctl.algorithm_type).cwnd)

\* C33: within one ack call the ack is processed by the algorithm that was active
\* when the call began; a call without a sample pair stops there. With a sample
\* pair the sample is then appended to both histories and the policy consulted:
\* when no swap follows, the active algorithm is the old one as the ack left it;
\* when a swap follows, the incoming algorithm is a new object that has not
\* processed the ack and holds the cwnd and ssthresh the outgoing one had after
\* processing it, and its kind is the preferred algorithm of the condition
\* classified on the history that contains the new sample.
C33_FeedAckOrdering ==
    [][last_call'.op = "ack" =>
         LET smp == last_call'.target
             sampled == Truthy(smp.rtt) /\ Truthy(smp.bandwidth)
             processed == AlgorithmOnAck(ctl, last_call'.ack_num, smp.rtt,
                                         smp.bandwidth, now)
         IN /\ IF sampled
               THEN /\ ctl'.rtt_history = LastN(Append(ctl.rtt_history, smp.rtt), HistoryLimit)
                    /\ ctl'.bandwidth_history =
                           LastN(Append(ctl.bandwidth_history, smp.bandwidth), HistoryLimit)
               ELSE /\ ctl'.rtt_history = ctl.rtt_history
                    /\ ctl'.bandwidth_history = ctl.bandwidth_history
                    /\ ctl'.algorithm_type = ctl.algorithm_type
            /\ IF ctl'.algorithm_type = ctl.algorithm_type
               THEN ctl'.algorithm = processed
               ELSE /\ ctl'.algorithm =
                           [_initialize_algorithm(ctl'.algorithm_type) EXCEPT
                               !.cwnd = processed.cwnd,
                               !.ssthresh = processed.ssthresh]
                    /\ ctl'.algorithm_type =
                           get_optimal_algorithm(detect_network_condition(ctl'))]_vars

\* The ack that brought the fifth sample has just been processed by the outgoing
\* algorithm (one more segment of window) and has then triggered a swap to BBR,
\* which a classification without that sample ("good") would not have chosen
C33_Witness ==
    /\ last_call.op = "ack"
    /\ ctl.algorithm_type = "bbr"
    /\ ctl.last_switch_time = now
    /\ Len(ctl.rtt_history) = 5
    /\ detect_network_condition(ctl) = "excellent"
    /\ ctl.algorithm.cwnd = Num(6)
    /\ ctl.algorithm.packet_count = 0

\* An ack has just been handed to Tahoe, Reno or Cubic in the phase st
WindowAckIn(st) ==
    /\ last_call'.op = "ack"
    /\ ctl.algorithm_type \in WindowKinds
    /\ ctl.algorithm.state = st

\* The ack did not end in a swap, so the phase after it is that of the algorithm
\* that processed it
SameAlgorithm == ctl'.algorithm_type = ctl.algorithm_type

\* What holds of every ack in slow_start: cwnd grows by exactly 1, and the phase
\* is congestion_avoidance afterwards exactly when the new cwnd >= ssthresh
SlowStartStep ==
    WindowAckIn("slow_start") =>
        /\ ctl'.algorithm.cwnd = RAdd(ctl.algorithm.cwnd, One)
        /\ SameAlgorithm =>
              ctl'.algorithm.state =
                  IF RGe(ctl'.algorithm.cwnd, ctl.algorithm.ssthresh)
                  THEN "congestion_avoidance" ELSE "slow_start"

C35_SlowStartBelowThreshold ==
    (ctl.algorithm_type \in WindowKinds /\ ctl.algorithm.state = "slow_start") =>
        RLt(ctl.algorithm.cwnd, ctl.algorithm.ssthresh)

\* The active algorithm was put in place by a hot-swap and has not processed an
\* ack since
JustSwappedIn == SwitchCount(ctl) >= 1 /\ dup_run.ack_num = 0

\* C35 amended: the same, except for an algorithm that a hot-swap has put in
\* place and that has not yet processed an ack; it holds the window and the
\* threshold of the outgoing algorithm, whatever their order.
C35_SlowStartBelowThresholdOnceAcked ==
    (/\ ctl.algorithm_type \in WindowKinds
     /\ ctl.algorithm.state = "slow_start"
     /\ ~JustSwappedIn) =>
        RLt(ctl.algorithm.cwnd, ctl.algorithm.ssthresh)

\* A Tahoe put in place by a hot-swap has processed a timeout, which halved the
\* window it took over into the threshold, and then an ack in slow_start
C35_Witness ==
    /\ last_call.op = "ack"
    /\ ctl.algorithm_type = "tahoe"
    /\ SwitchCount(ctl) >= 1
    /\ dup_run.ack_num # 0
    /\ ctl.algorithm.state = "slow_start"
    /\ RGt(ctl.algorithm.ssthresh, Num(2))
    /\ ctl.algorithm.cwnd = Num(2)

\* The two phases BBR alternates between once it has left STARTUP and DRAIN
ProbePhases == {"PROBE_BW", "PROBE_RTT"}

\* C36: a new BBR object is in STARTUP; no call takes BBR from PROBE_BW or
\* PROBE_RTT to any phase outside those two; no call enters STARTUP, and DRAIN is
\* entered from STARTUP only.
C36_PhaseOrder ==
    /\ BBRInit.state = "STARTUP"
    /\ _initialize_algorithm("bbr").state = "STARTUP"
    /\ [][/\ bbr'.state \in {"STARTUP", "DRAIN"} \cup ProbePhases
          /\ bbr.state \in ProbePhases => bbr'.state \in ProbePhases
          /\ bbr'.state = "STARTUP" => bbr.state = "STARTUP"
          /\ bbr'.state = "DRAIN" => bbr.state \in {"STARTUP", "DRAIN"}]_vars

\* BBR has been through PROBE_RTT and is back in PROBE_BW, where an ack later
\* than the end of the probe has just found it
C36_Witness ==
    /\ last_call.op = "bbr_ack"
    /\ bbr.state = "PROBE_BW"
    /\ bbr.full_bw_reached
    /\ RGt(bbr.prior_cwnd, Zero)
    /\ RGt(bbr.probe_rtt_done_stamp, Zero)
    /\ RGt(now, bbr.rtprop_stamp)
    /\ RGe(bbr.rtprop_stamp, bbr.probe_rtt_done_stamp)

\* The pacing gain is the schedule's entry at the cycle index
OnSchedule(b) ==
    b.cycle_index \in 0 .. 7 /\ b.pacing_gain = ProbeGains[b.cycle_index + 1]

\* Index 0 with gain 1.0, where the schedule has 1.25
OffSchedule(b) == b.cycle_index = 0 /\ b.pacing_gain = One

\* C37 as stated: whenever BBR is in PROBE_BW after an ack, cycle_index is in
\* 0..7 and pacing_gain is the schedule entry at cycle_index.
C37_GainOnSchedule ==
    (last_call.op = "bbr_ack" /\ bbr.state = "PROBE_BW") => OnSchedule(bbr)

\* C37 amended: whenever BBR is in PROBE_BW after an ack, cycle_index is in 0..7
\* and pacing_gain is the schedule entry at cycle_index, except from the ack that
\* entered PROBE_BW from DRAIN until the first advance of the cycle: there
\* cycle_index is 0 and pacing_gain is 1.0. An ack that enters PROBE_BW from
\* PROBE_RTT, or that advances the cycle, leaves the gain on the schedule.
C37_GainOnScheduleExceptFromDrain ==
    [][(last_call'.op = "bbr_ack" /\ bbr'.state = "PROBE_BW") =>
         /\ bbr'.cycle_index \in 0 .. 7
         /\ OnSchedule(bbr') \/ OffSchedule(bbr')
         /\ OffSchedule(bbr') =>
               \/ bbr.state = "DRAIN"
               \/ /\ bbr.state = "PROBE_BW"
                  /\ OffSchedule(bbr)
                  /\ bbr'.cycle_stamp = bbr.cycle_stamp
         /\ bbr.state = "DRAIN" => OffSchedule(bbr')]_vars

\* BBR came to PROBE_BW from DRAIN, and an ack that did not advance the cycle
\* has just found it still at index 0 with gain 1.0
C37_Witness ==
    /\ last_call.op = "bbr_ack"
    /\ bbr.state = "PROBE_BW"
    /\ OffSchedule(bbr)
    /\ RGt(now, bbr.cycle_stamp)
    /\ bbr.prior_cwnd = Zero

\* C38: the loss rate a controller reports is between 0 and 1 inclusive, and is 0
\* while packets_sent is 0.
C38_LossRateBounds ==
    /\ RGe(get_packet_loss_rate(ctl), Zero)
    /\ RLe(get_packet_loss_rate(ctl), One)
    /\ ctl.packets_sent = 0 => get_packet_loss_rate(ctl) = Zero

\* C39: while Reno is the active algorithm, a loss fed to the controller adds 1 to
\* packets_lost and changes nothing else: Reno's cwnd, ssthresh, phase,
\* duplicate_acks and recover, and every other field of the controller, are as
\* before the call.
C39_RenoLossFrame ==
    [][(last_call'.op = "loss" /\ ctl.algorithm_type = "reno") =>
         /\ ctl'.algorithm.cwnd = ctl.algorithm.cwnd
         /\ ctl'.algorithm.ssthresh = ctl.algorithm.ssthresh
         /\ ctl'.algorithm.state = ctl.algorithm.state
         /\ ctl'.algorithm.duplicate_acks = ctl.algorithm.duplicate_acks
         /\ ctl'.algorithm.recover = ctl.algorithm.recover
         /\ ctl' = [ctl EXCEPT !.packets_lost = @ + 1]]_vars

\* A loss has just reached a controller whose Reno had grown its window, and
\* the window is still there
C39_Witness ==
    /\ last_call.op = "loss"
    /\ ctl.algorithm_type = "reno"
    /\ ctl.packets_lost >= 1
    /\ RGt(ctl.algorithm.cwnd, Num(2))
    /\ ctl.algorithm.recover = 0

====
